---- MODULE Spec2Model ----
(***************************************************************************)
(* Model of the RIJIN regime state machine and admission gates             *)
(* (src/rijin_engine.py, src/rijin_config.py, src/backtest_rijin.py).      *)
(*                                                                         *)
(* Times are minutes since an arbitrary origin.  The code compares         *)
(* (current_time - since).total_seconds() / 60 with whole-minute           *)
(* thresholds only, so whole minutes decide every comparison.              *)
(* A Python None is the empty sequence <<>> for a timestamp (<<t>> is the  *)
(* timestamp t) and the string "None" for a label or a message.            *)
(***************************************************************************)
EXTENDS Integers, Sequences, FiniteSets, TLC

\* ------------------------------------------------------------------ bounds
\* Largest clock value the model explores.
MaxTime == 100

\* ------------------------------------------------------- rijin_config.py
\* Members of the DayType enum.
DayType ==
    { "CLEAN_TREND", "NORMAL_TREND", "EARLY_IMPULSE_SIDEWAYS", "RANGE_CHOPPY",
      "VOLATILITY_SPIKE", "EXPIRY_DISTORTION", "UNKNOWN" }

\* DAY_TYPE_HIERARCHY: severity of each classified member.
DAY_TYPE_HIERARCHY ==
    [ t \in { "CLEAN_TREND", "NORMAL_TREND", "EARLY_IMPULSE_SIDEWAYS",
              "RANGE_CHOPPY", "EXPIRY_DISTORTION", "VOLATILITY_SPIKE" } |->
        CASE t = "CLEAN_TREND" -> 1
          [] t = "NORMAL_TREND" -> 2
          [] t = "EARLY_IMPULSE_SIDEWAYS" -> 3
          [] t = "RANGE_CHOPPY" -> 4
          [] t = "EXPIRY_DISTORTION" -> 4
          [] t = "VOLATILITY_SPIKE" -> 5 ]

\* IMMEDIATE_DOWNGRADE: labels applied without confirmation.
IMMEDIATE_DOWNGRADE == { "RANGE_CHOPPY", "EXPIRY_DISTORTION", "VOLATILITY_SPIKE" }

\* ------------------------------------------------------- rijin_engine.py
\* The list literal [DayType.RANGE_CHOPPY, DayType.LIQUIDITY_SWEEP_TRAP] that
\* update_day_type builds to decide whether to lock the day.
TerminalNames == << "RANGE_CHOPPY", "LIQUIDITY_SWEEP_TRAP" >>

\* Attribute lookup DayType.<name>: it raises AttributeError for a name that
\* is no member of the enum.
LookupRaises(name) == name \notin DayType

\* Building the terminal list evaluates every DayType.<name> in it.
TerminalListRaises == \E i \in 1..Len(TerminalNames) : LookupRaises(TerminalNames[i])

\* The labels the specification calls terminal (they are meant to lock).
Terminal == { TerminalNames[i] : i \in 1..Len(TerminalNames) }

\* DAY_TYPE_HIERARCHY.get(label, 0)
Level(label) ==
    IF label \in DOMAIN DAY_TYPE_HIERARCHY THEN DAY_TYPE_HIERARCHY[label] ELSE 0

\* "if new_level <= current_level": the proposal is no degradation.
NoDegradeMutReversed(new_level, current_level) == new_level >= current_level
NoDegradeMutStrict(new_level, current_level) == new_level < current_level
NoDegrade(new_level, current_level) == new_level <= current_level

\* "if new_type in IMMEDIATE_DOWNGRADE"
IsImmediateMutAll(new_type) == TRUE
IsImmediate(new_type) == new_type \in IMMEDIATE_DOWNGRADE

\* "if self.pending_downgrade == new_type"
PendingMatchesMutAny(pending, new_type) == pending # "None"
PendingMatches(pending, new_type) == pending = new_type

\* time_since = (current_time - self.pending_downgrade_since).total_seconds() / 60
TimeSince(current_time, since) == current_time - since[1]

\* "if time_since >= 50"
ConfirmWindow(time_since) == time_since >= 50

VARIABLES
    current_day_type,         \* DayTypeEngine.current_day_type
    last_check_time,          \* DayTypeEngine.last_check_time
    pending_downgrade,        \* DayTypeEngine.pending_downgrade
    pending_downgrade_since,  \* DayTypeEngine.pending_downgrade_since
    day_locked,               \* DayTypeEngine.day_locked
    now,                      \* the wall clock the callers read current_time from
    call,                     \* the last DayTypeEngine call: arguments and outcome
    impulse_origin,           \* ImpulseDetectionEngine.impulse_origin
    impulse_atr,              \* ImpulseDetectionEngine.impulse_atr
    impulse_direction,        \* ImpulseDetectionEngine.impulse_direction
    impulse_time,             \* ImpulseDetectionEngine.impulse_time
    swing_high,               \* ImpulseDetectionEngine.swing_high
    swing_low,                \* ImpulseDetectionEngine.swing_low
    consecutive_losses,       \* RijinBacktestEngine.consecutive_losses['NIFTY']
    pause_until,              \* RijinBacktestEngine.pause_until['NIFTY']
    verdict,                  \* the last _apply_rijin_gates evaluation
    candle_time,              \* candle_time of the _process_day loop
    trade,                    \* the last _execute_trade call and its exit
    stopped,                  \* SystemStopManager.stopped
    stop_reason,              \* SystemStopManager.stop_reason
    consecutive_blocks,       \* SystemStopManager.consecutive_blocks
    sl_count_after_cutoff,    \* SystemStopManager.sl_count_after_cutoff
    stop_call,                \* the last SystemStopManager call and its outcome
    wall_clock,               \* the wall clock of the live runner, in minutes
    sl_history,               \* CorrelationBrake.sl_history
    blocked_instruments,      \* CorrelationBrake.blocked_instruments
    brake_call,               \* the last CorrelationBrake call and its outcome
    active_trades,            \* RijinIntegratedRunner.active_trades
    runner_day_type,          \* RijinIntegratedRunner.current_day_type
    last_processed,           \* RijinIntegratedRunner.last_processed
    last_reset_date,          \* RijinIntegratedRunner.last_reset_date
    impulse_fired,            \* OpeningImpulseTracker.impulse_fired
    total_impulse_count,      \* OpeningImpulseTracker.total_impulse_count
    loop,                     \* the last iteration of run_loop and what it did
    engine,                   \* RijinLiveEngine: its fields and its last iteration
    impulse_call,             \* the last detect_impulse call: arguments and outcome
    check_call,               \* the last direct call of a gate or check and its outcome
    classify_call,            \* the last classify_day call: arguments and outcome
    ai,                       \* RijinLiveEngine's validator statistics and its last call
    poll,                     \* the threads of run_loop and of RijinLiveEngine.run, and their stop events
    launch                    \* start() and stop() of rijin_live_runner and of RijinIntegratedRunner

dayVars == << current_day_type, last_check_time, pending_downgrade,
              pending_downgrade_since, day_locked, now, call >>

impulseVars == << impulse_origin, impulse_atr, impulse_direction, impulse_time,
                  swing_high, swing_low >>

breakerVars == << consecutive_losses, pause_until >>

gateVars == << impulseVars, breakerVars, verdict >>

tradeVars == << candle_time, trade >>

callVars == << impulse_call, check_call, classify_call >>

stopVars == << stopped, stop_reason, consecutive_blocks, sl_count_after_cutoff,
               stop_call >>

\* What the regime machine and the admission gates leave alone.
brakeVars == << sl_history, blocked_instruments, brake_call >>

runnerVars == << active_trades, runner_day_type, last_processed, last_reset_date,
                 impulse_fired, total_impulse_count, loop >>

threadVars == << poll, launch >>

engineVars == << engine, ai, threadVars >>

liveVars == << wall_clock, brakeVars, runnerVars, engineVars >>

sessionVars == << tradeVars, callVars, stopVars, liveVars >>

\* Gaps between two successive calls: the live loop repeats the check within
\* the same minute while should_run_check allows it, the scheduled checks are
\* about half an hour apart (sums of 24 and 25 straddle the 50 minute mark).
Deltas == { 0, 24, 25 }

\* What the model remembers of the last DayTypeEngine call: its arguments, the
\* label and pending label it found, what it returned or raised.
NoCall ==
    [ op |-> "init", new_type |-> "None", current_time |-> 0,
      current_before |-> "UNKNOWN", pending_before |-> "None",
      updated |-> FALSE, message |-> "None", raised |-> "None" ]

Returned(new_type, t, updated, message) ==
    [ op |-> "update_day_type", new_type |-> new_type, current_time |-> t,
      current_before |-> current_day_type, pending_before |-> pending_downgrade,
      updated |-> updated, message |-> message, raised |-> "None" ]

Raised(new_type, t, exc) ==
    [ op |-> "update_day_type", new_type |-> new_type, current_time |-> t,
      current_before |-> current_day_type, pending_before |-> pending_downgrade,
      updated |-> FALSE, message |-> "None", raised |-> exc ]

\* DayTypeEngine.__init__
DayInit ==
    /\ current_day_type = "UNKNOWN"
    /\ last_check_time = << >>
    /\ pending_downgrade = "None"
    /\ pending_downgrade_since = << >>
    /\ day_locked = FALSE
    /\ now = 0
    /\ call = NoCall

\* "if len(candles_5m) < 30" of classify_day
ClassifyMinBars == 30

\* The predicates of classify_day in the order it asks them, each named by
\* the DayType member it answers with.
ClassifyOrder ==
    << "LIQUIDITY_SWEEP_TRAP", "RANGE_CHOPPY", "ROTATIONAL_EXPANSION", "FAST_REGIME_FLIP",
       "CLEAN_TREND", "NORMAL_TREND", "EARLY_IMPULSE_SIDEWAYS" >>

\* The reason classify_day gives with each label.
ClassifyReason(name) ==
    CASE name = "LIQUIDITY_SWEEP_TRAP" -> "Stop-hunt pattern detected (expansion + reversal)"
      [] name = "RANGE_CHOPPY" -> "Choppy price action"
      [] name = "ROTATIONAL_EXPANSION" -> "ATR expanding but structure unstable"
      [] name = "FAST_REGIME_FLIP" -> "Morning trend reversed violently"
      [] name = "CLEAN_TREND" -> "Clean expansion & pullbacks"
      [] name = "NORMAL_TREND" -> "Directional with slower expansion"
      [] name = "EARLY_IMPULSE_SIDEWAYS" -> "Early move, then compression"

\* What classify_day returns: the label and the reason; fallback tells that
\* the label is the engine's current one, returned by the exception handler.
Classified(label, reason, fallback) ==
    [ label |-> label, reason |-> reason, fallback |-> fallback ]

\* "except Exception: return self.current_day_type, 'Error in classification'"
ClassifyError == Classified(current_day_type, "Error in classification", TRUE)

\* "return DayType.NORMAL_TREND, 'Default classification'"
ClassifyDefault == Classified("NORMAL_TREND", "Default classification", FALSE)

\* The predicates from the i-th on: the first that matches decides, and
\* evaluating a DayType member that does not exist raises AttributeError.
RECURSIVE ClassifyFrom(_, _)
ClassifyFrom(i, matches) ==
    IF i > Len(ClassifyOrder) THEN ClassifyDefault
    ELSE IF ClassifyOrder[i] \in matches
    THEN IF LookupRaises(ClassifyOrder[i]) THEN ClassifyError
         ELSE Classified(ClassifyOrder[i], ClassifyReason(ClassifyOrder[i]), FALSE)
    ELSE ClassifyFrom(i + 1, matches)

\* DayTypeEngine.classify_day(candles_5m, candles_30m, indicators, is_expiry_day):
\* in.n bars, in.stats_ok tells whether _update_day_stats can read the bars
\* and the ATR, in.expiry_post_noon whether it is an expiry day after 12:00,
\* in.matches the predicates that hold.
ClassifyDay(in) ==
    IF in.n < ClassifyMinBars THEN Classified("UNKNOWN", "Insufficient data", FALSE)
    ELSE IF ~in.stats_ok THEN ClassifyError
    ELSE IF in.expiry_post_noon
    THEN Classified("EXPIRY_DISTORTION", "Expiry day post-noon", FALSE)
    ELSE ClassifyFrom(1, in.matches)

\* The calls of classify_day: bars just short of and at the minimum, readable
\* or not, on and off a late expiry day, with at most two predicates holding.
ClassifyInputs ==
    [ n : { ClassifyMinBars - 1, ClassifyMinBars }, stats_ok : BOOLEAN,
      expiry_post_noon : BOOLEAN,
      matches : { m \in SUBSET { ClassifyOrder[i] : i \in 1..Len(ClassifyOrder) } :
                    Cardinality(m) <= 2 } ]

\* No classify_day call made yet.
ClassifyCallInit ==
    classify_call = [ op |-> "init", n |-> 0, stats_ok |-> TRUE,
                      expiry_post_noon |-> FALSE, matches |-> { },
                      current_before |-> "UNKNOWN", label |-> "UNKNOWN",
                      reason |-> "None", fallback |-> FALSE ]

\* One call of classify_day with what it returns; it assigns to day_stats
\* only, which nothing but its own predicates reads.
ClassifyDayCall(in) ==
    classify_call' = [ op |-> "classify_day", n |-> in.n, stats_ok |-> in.stats_ok,
                       expiry_post_noon |-> in.expiry_post_noon, matches |-> in.matches,
                       current_before |-> current_day_type,
                       label |-> ClassifyDay(in).label,
                       reason |-> ClassifyDay(in).reason,
                       fallback |-> ClassifyDay(in).fallback ]

\* DayTypeEngine.reset_for_new_day
ResetForNewDay ==
    /\ current_day_type' = "UNKNOWN"
    /\ last_check_time' = << >>
    /\ pending_downgrade' = "None"
    /\ pending_downgrade_since' = << >>
    /\ day_locked' = FALSE
    /\ call' = [ NoCall EXCEPT !.op = "reset_for_new_day", !.current_time = now,
                               !.current_before = current_day_type,
                               !.pending_before = pending_downgrade ]
    /\ UNCHANGED now

\* DayTypeEngine.update_day_type(new_type, reason, current_time)
UpdateDayType(new_type, t) ==
    /\ now' = t
    /\ IF day_locked
       THEN /\ call' = Returned(new_type, t, FALSE, "None")
            /\ UNCHANGED << current_day_type, last_check_time, pending_downgrade,
                            pending_downgrade_since, day_locked >>
       ELSE IF current_day_type = "UNKNOWN"
       THEN /\ current_day_type' = new_type
            /\ last_check_time' = << t >>
            /\ call' = Returned(new_type, t, TRUE, "Initial classification")
            /\ UNCHANGED << pending_downgrade, pending_downgrade_since, day_locked >>
       ELSE IF NoDegrade(Level(new_type), Level(current_day_type))
       THEN /\ pending_downgrade' = "None"
            /\ pending_downgrade_since' = << >>
            /\ call' = Returned(new_type, t, FALSE, "None")
            /\ UNCHANGED << current_day_type, last_check_time, day_locked >>
       ELSE IF IsImmediate(new_type)
       THEN /\ current_day_type' = new_type
            /\ last_check_time' = << t >>
            /\ IF TerminalListRaises
               THEN /\ call' = Raised(new_type, t, "AttributeError")
                    /\ UNCHANGED day_locked
               ELSE /\ day_locked' = (day_locked \/ new_type \in Terminal)
                    /\ call' = Returned(new_type, t, TRUE, "Immediate")
            /\ UNCHANGED << pending_downgrade, pending_downgrade_since >>
       ELSE IF PendingMatches(pending_downgrade, new_type)
       THEN IF ConfirmWindow(TimeSince(t, pending_downgrade_since))
            THEN /\ current_day_type' = new_type
                 /\ last_check_time' = << t >>
                 /\ pending_downgrade' = "None"
                 /\ pending_downgrade_since' = << >>
                 /\ call' = Returned(new_type, t, TRUE, "Confirmed")
                 /\ UNCHANGED day_locked
            ELSE /\ call' = Returned(new_type, t, FALSE, "None")
                 /\ UNCHANGED << current_day_type, last_check_time, pending_downgrade,
                                 pending_downgrade_since, day_locked >>
       ELSE /\ pending_downgrade' = new_type
            /\ pending_downgrade_since' = << t >>
            /\ call' = Returned(new_type, t, FALSE, "None")
            /\ UNCHANGED << current_day_type, last_check_time, day_locked >>


\* ---------------------------------------- ImpulseDetectionEngine (rijin_engine.py)
\* Prices are whole ticks; a threshold such as 0.6 x ATR is compared after
\* multiplying both sides by ten (or by 10000 for the slope percentage).
Abs(x) == IF x < 0 THEN -x ELSE x

Min(a, b) == IF a < b THEN a ELSE b

\* IMPULSE_DETECTION['min_range_atr_multiple'] = 0.6, times ten
MinRangeAtrMultipleX10 == 6

\* IMPULSE_DETECTION['min_ema_slope_pct'] = 0.03, times one hundred
MinEmaSlopePctX100 == 3

\* ImpulseDetectionEngine.__init__
ImpulseInit ==
    /\ impulse_origin = << >>
    /\ impulse_atr = << >>
    /\ impulse_direction = "None"
    /\ impulse_time = << >>
    /\ swing_high = << >>
    /\ swing_low = << >>

\* ImpulseDetectionEngine.reset_for_new_day
ImpulseReset ==
    /\ impulse_origin' = << >>
    /\ impulse_atr' = << >>
    /\ impulse_direction' = "None"
    /\ impulse_time' = << >>
    /\ swing_high' = << >>
    /\ swing_low' = << >>

\* A 5 minute candle.
Candle(o, h, l, c) == [ open |-> o, high |-> h, low |-> l, close |-> c ]

\* The bars detect_impulse reads: n = len(candles_5m), the last two candles,
\* the close of candles_5m[-4], the extremes of recent_candles[:-2], and which
\* of its values cannot be read as a number: none, a close of the last five
\* candles, a low of recent_candles[:-2], or a field of the last two candles.
Malformations == { "None", "close", "swing_low", "candle" }

ImpulseBars ==
    [ n : { 9, 10 },
      candle_1 : { Candle(100, 108, 100, 107), Candle(100, 104, 100, 103),
                   Candle(115, 116, 107, 108) },
      candle_2 : { Candle(107, 116, 106, 115), Candle(108, 109, 100, 101) },
      close_4 : { 100, 115 },
      prior_high : { 110, 120 },
      prior_low : { 95, 105 },
      malformed : { "None" } ]

\* "self.impulse_origin = float(candle_1['low'])" for a bullish impulse and
\* "float(candle_1['high'])" for a bearish one.
ImpulseBaseMutSecondBar(c1, c2, direction) == IF direction = "BUY" THEN c2.low ELSE c2.high
ImpulseBase(c1, c2, direction) == IF direction = "BUY" THEN c1.low ELSE c1.high

\* "return False, None, None" after both pattern checks failed: nothing was
\* assigned on the way, the stored origin is the one found.
OriginAfterNoMatchMutCleared(stored) == << >>
OriginAfterNoMatch(stored) == stored

\* The direction of the impulse detect_impulse finds in the bars, "None" when
\* it finds none, returns early or catches an exception.
MatchedDirection(bars, atr) ==
    IF bars.n < 10 \/ bars.malformed # "None"
    THEN "None"
    ELSE LET c1 == bars.candle_1
             c2 == bars.candle_2
             slope_num == (c2.close - bars.close_4) * 100 * 100
             slope_min == MinEmaSlopePctX100 * bars.close_4
             range_1 == c1.high - c1.low
             range_2 == c2.high - c2.low
             strong == /\ 10 * range_1 > MinRangeAtrMultipleX10 * atr
                       /\ 10 * range_2 > MinRangeAtrMultipleX10 * atr
             bullish == /\ c1.close > c1.open /\ c2.close > c2.open
                        /\ strong /\ slope_num > slope_min
                        /\ c2.close > bars.prior_high
             bearish == /\ c1.close < c1.open /\ c2.close < c2.open
                        /\ strong /\ slope_num < -slope_min
                        /\ c2.close < bars.prior_low
         IN IF bullish THEN "BUY" ELSE IF bearish THEN "SELL" ELSE "None"

\* ImpulseDetectionEngine.detect_impulse(candles_5m, indicators, current_time):
\* the closes are read first, then the swing levels are written, the high
\* before the low, then the last two candles are read.
DetectImpulse(bars, atr, t) ==
    IF bars.n < 10 \/ bars.malformed = "close"
    THEN UNCHANGED impulseVars
    ELSE IF bars.malformed = "swing_low"
    THEN /\ swing_high' = << bars.prior_high >>
         /\ UNCHANGED << swing_low, impulse_origin, impulse_atr, impulse_direction,
                         impulse_time >>
    ELSE LET direction == MatchedDirection(bars, atr)
         IN /\ swing_high' = << bars.prior_high >>
            /\ swing_low' = << bars.prior_low >>
            /\ IF direction # "None"
               THEN /\ impulse_origin' =
                          << ImpulseBase(bars.candle_1, bars.candle_2, direction) >>
                    /\ impulse_atr' = << atr >>
                    /\ impulse_direction' = direction
                    /\ impulse_time' = << t >>
               ELSE /\ impulse_origin' = OriginAfterNoMatch(impulse_origin)
                    /\ UNCHANGED << impulse_atr, impulse_direction, impulse_time >>

\* What the model remembers of a detect_impulse call: the extremes of the
\* first of the two candles, the volatility and the time passed in, the
\* triple returned, whether an exception was caught inside the call and
\* whether one left it.
ImpulseCallInit ==
    impulse_call = [ op |-> "init", first_low |-> 0, first_high |-> 0, atr |-> 0,
                     current_time |-> 0, cause |-> "None", detected |-> FALSE,
                     direction |-> "None", origin |-> << >>, caught |-> FALSE,
                     raised |-> "None", stored_atr |-> << >>, price |-> 0, num |-> 0, den |-> 1 ]

\* detect_impulse together with what it returns: "return True, direction,
\* self.impulse_origin" on a match, "return False, None, None" otherwise, from
\* the except branch too.
DetectImpulseCall(bars, atr, t) ==
    LET direction == MatchedDirection(bars, atr)
    IN /\ DetectImpulse(bars, atr, t)
       /\ impulse_call' =
             [ op |-> "detect_impulse", first_low |-> bars.candle_1.low,
               first_high |-> bars.candle_1.high, atr |-> atr, current_time |-> t,
               cause |-> IF bars.n < 10 THEN "too_few"
                         ELSE IF bars.malformed # "None" THEN "malformed"
                         ELSE "pattern",
               detected |-> direction # "None", direction |-> direction,
               origin |-> IF direction # "None" THEN impulse_origin' ELSE << >>,
               caught |-> bars.n >= 10 /\ bars.malformed # "None",
               raised |-> "None", stored_atr |-> << >>, price |-> 0, num |-> 0, den |-> 1 ]

\* ImpulseDetectionEngine.is_impulse_active
IsImpulseActive == impulse_origin # << >>

\* ImpulseDetectionEngine.get_expansion_from_impulse(price) as the fraction
\* ExpansionNum(price) / ExpansionDen: 0.0 without an origin or an ATR, and 0.0
\* when the division raises (ATR of zero).
ExpansionDefined == impulse_origin # << >> /\ impulse_atr # << >> /\ impulse_atr[1] # 0

\* "abs(current_price - self.impulse_origin)"
PriceDistanceMutSigned(price, origin) == price - origin
PriceDistance(price, origin) == Abs(price - origin)

\* get_expansion_from_impulse(price) for a stored origin and ATR, as the
\* fraction num / den.
ExpansionOf(origin, atr, price) ==
    IF origin # << >> /\ atr # << >> /\ atr[1] # 0
    THEN [ num |-> PriceDistance(price, origin[1]), den |-> atr[1] ]
    ELSE [ num |-> 0, den |-> 1 ]

ExpansionNum(price) == ExpansionOf(impulse_origin, impulse_atr, price).num

ExpansionDen == ExpansionOf(impulse_origin, impulse_atr, 0).den

\* The prices get_expansion_from_impulse is asked about.
ExpansionPrices == { 90, 100, 106, 112, 116, 130 }

\* get_expansion_from_impulse(price) together with what it returns.
GetExpansionCall(price) ==
    /\ impulse_call' =
          [ op |-> "get_expansion_from_impulse", first_low |-> 0, first_high |-> 0,
            atr |-> 0, current_time |-> 0, cause |-> "None", detected |-> FALSE,
            direction |-> "None", origin |-> impulse_origin, caught |-> FALSE,
            raised |-> "None", stored_atr |-> impulse_atr, price |-> price,
            num |-> ExpansionOf(impulse_origin, impulse_atr, price).num,
            den |-> ExpansionOf(impulse_origin, impulse_atr, price).den ]
    /\ UNCHANGED impulseVars

\* ------------------------------------------------- gates (rijin_engine.py)
\* SESSION_TREND_PHASE['early']['max_expansion_atr'] = 1.2, times ten
EarlyMaxExpansionX10 == 12

\* SESSION_TREND_PHASE['mid']['max_expansion_atr'] = 2.0, times ten
MidMaxExpansionX10 == 20

\* SESSION_TREND_PHASE['mid']['conditions']['max_pullback_atr'] = 0.5, times ten
MaxPullbackAtrX10 == 5

\* SESSION_TREND_PHASE['mid']['conditions']['min_rsi']
MinRsi == 50

\* EXECUTION_GATES['exhaustion_atr_multiple'] = 1.5, times ten
ExhaustionAtrMultipleX10 == 15

\* EXECUTION_GATES['exhaustion_day_range_pct'] = 0.70, times ten
ExhaustionDayRangePctX10 == 7

\* EXECUTION_GATES['late_cutoff_time'] = 12:30, in minutes of the day
LateCutoffTime == 750

\* dtime(14, 0) of check_mode_f, in minutes of the day
LateExpiryTime == 840

\* gate_3_rsi_compression: "compression_count >= 10"
CompressionCandles == 10

\* gate_3_rsi_compression: "overlap_count >= 5"
OverlapCandles == 5

\* gate_3_rsi_compression: "len(candles_5m) < 15" and "range(-15, 0)"
CompressionMinBars == 15

\* gate_3_rsi_compression: "calculate_rsi(closes, 14)" under "len(closes) >= 14"
RsiPeriod == 14

\* gate_3_rsi_compression: "len(rsi_values) < 10"
RsiValuesNeeded == 10

\* CONSECUTIVE_LOSS_LIMIT['pause_duration_minutes']
PauseDurationMinutes == 60

\* MODE_F_ALLOWED_DAY_TYPES
MODE_F_ALLOWED_DAY_TYPES == { "CLEAN_TREND", "NORMAL_TREND" }

\* What one stage returns: (allowed, reason), or the exception it raises.
Allow == [ allowed |-> TRUE, reason |-> << >>, raised |-> "None" ]

Reject(reason) == [ allowed |-> FALSE, reason |-> reason, raised |-> "None" ]

Raise(exc) == [ allowed |-> FALSE, reason |-> << >>, raised |-> exc ]

\* TrendPhaseEngine.get_phase(expansion)
GetPhaseMutEarlyInclusive(num, den) ==
    IF 10 * num <= EarlyMaxExpansionX10 * den THEN "EARLY"
    ELSE IF 10 * num <= MidMaxExpansionX10 * den THEN "MID"
    ELSE "LATE"
GetPhase(num, den) ==
    IF 10 * num < EarlyMaxExpansionX10 * den THEN "EARLY"
    ELSE IF 10 * num <= MidMaxExpansionX10 * den THEN "MID"
    ELSE "LATE"

\* "candles_5m[-3:]" read bar by bar: the values of the bars there are, at
\* most three.
LastBars(values3, n) == IF n >= 3 THEN values3 ELSE SubSeq(values3, 4 - n, 3)

\* "except Exception: return False, 'MID phase: Check error'"
MidCheckError == Reject(<< "MID phase: Check error" >>)

\* "lows[1] >= lows[0]" for a BUY, "highs[1] <= highs[0]" for a SELL
StructureKept(later, earlier, direction) ==
    IF direction = "BUY" THEN later >= earlier ELSE later <= earlier

\* The structure check of check_mid_phase_conditions on the lows (BUY) or the
\* highs (SELL) of the last bars; indexing past the bars there are
\* raises IndexError, which the method's handler turns into a rejection.
StructureCheck(values, direction, broken) ==
    IF Len(values) < 2 THEN MidCheckError
    ELSE IF ~StructureKept(values[2], values[1], direction) THEN Reject(broken)
    ELSE IF Len(values) < 3 THEN MidCheckError
    ELSE IF ~StructureKept(values[3], values[2], direction) THEN Reject(broken)
    ELSE Allow

\* TrendPhaseEngine.check_mid_phase_conditions(candles_5m, indicators, direction);
\* in.n is the number of bars and in.missing the indicator that is unavailable.
CheckMidPhaseConditions(in) ==
    LET pullback_depth == IF in.direction = "BUY" THEN in.recent_high - in.close
                          ELSE in.close - in.recent_low
    IN IF in.n < 1 \/ in.missing = "atr"
       THEN MidCheckError
       ELSE IF 10 * pullback_depth > MaxPullbackAtrX10 * in.atr
       THEN Reject(<< "MID phase: Pullback too deep" >>)
       ELSE IF in.missing = "rsi"
       THEN MidCheckError
       ELSE IF in.direction = "BUY" /\ in.rsi < MinRsi
       THEN Reject(<< "MID phase: RSI not confirming" >>)
       ELSE IF in.direction = "SELL" /\ in.rsi > 100 - MinRsi
       THEN Reject(<< "MID phase: RSI not confirming" >>)
       ELSE IF in.direction = "BUY"
       THEN StructureCheck(LastBars(in.lows3, in.n), "BUY",
                           << "MID phase: Structure broken (no HH-HL)" >>)
       ELSE StructureCheck(LastBars(in.highs3, in.n), "SELL",
                           << "MID phase: Structure broken (no LH-LL)" >>)

\* The phase is_mode_f_allowed returns with its answer.
PhaseOf(in) ==
    IF ~IsImpulseActive THEN "NO_IMPULSE"
    ELSE IF in.n < 1 THEN "UNKNOWN"
    ELSE GetPhase(ExpansionNum(in.close), ExpansionDen)

\* TrendPhaseEngine.is_mode_f_allowed(candles_5m, indicators, direction, impulse_engine)
IsModeFAllowed(in) ==
    LET phase == PhaseOf(in)
    IN IF phase \in { "NO_IMPULSE", "UNKNOWN", "EARLY" } THEN Allow
       ELSE IF phase = "MID" THEN CheckMidPhaseConditions(in)
       ELSE Reject(<< "LATE phase" >>)

\* The names a static method of ExecutionGates can read: its parameters.
\* Reading any other name that is no global raises NameError.
Gate1Names == { "candles_5m", "indicators", "direction", "impulse_engine" }

NameRaises(name) == name \notin Gate1Names

\* "if expansion > threshold_multiple" of gate 1
ExpansionExhausted(num, den) == 10 * num > ExhaustionAtrMultipleX10 * den

\* ExecutionGates.gate_1_move_exhaustion(candles_5m, indicators, direction, impulse_engine)
Gate1MoveExhaustion(in) ==
    IF in.n < 1 \/ in.missing = "atr"
    THEN Allow    \* IndexError or KeyError; "except Exception: return True, None"
    ELSE IF IsImpulseActive
    THEN IF NameRaises("self")
         THEN Allow    \* hasattr(self, ...) raises; "except Exception: return True, None"
         ELSE IF ExpansionExhausted(ExpansionNum(in.close), ExpansionDen)
         THEN Reject(<< "Move exhausted (from impulse)" >>)
         ELSE Allow
    ELSE LET day_range == in.day_high - in.day_low
             threshold_x10 == Min(ExhaustionAtrMultipleX10 * in.atr,
                                  ExhaustionDayRangePctX10 * day_range)
         IN IF in.direction = "BUY" /\ 10 * (in.close - in.day_low) > threshold_x10
            THEN Reject(<< "Move exhausted (from low)" >>)
            ELSE IF in.direction = "SELL" /\ 10 * (in.day_high - in.close) > threshold_x10
            THEN Reject(<< "Move exhausted (from high)" >>)
            ELSE Allow

\* The list literal bad_day_types of gate 2.
BadDayTypeNames ==
    << "EARLY_IMPULSE_SIDEWAYS", "RANGE_CHOPPY", "EXPIRY_DISTORTION",
       "ROTATIONAL_EXPANSION", "FAST_REGIME_FLIP" >>

\* ExecutionGates.gate_2_time_day_type(current_time, day_type)
Gate2TimeDayType(tod, day_type) ==
    IF tod > LateCutoffTime
    THEN IF \E i \in 1..Len(BadDayTypeNames) : LookupRaises(BadDayTypeNames[i])
         THEN Raise("AttributeError")
         ELSE IF \E i \in 1..Len(BadDayTypeNames) : BadDayTypeNames[i] = day_type
         THEN Reject(<< "Post 12:30 + Day Type" >>)
         ELSE Allow
    ELSE Allow

\* ExecutionGates.gate_3_rsi_compression(candles_5m, indicators); in_band is
\* the number of the last ten RSI values inside [48, 62], overlap the number
\* of overlapping bars among the last ten.
Gate3RsiCompression(in) ==
    IF in.n < CompressionMinBars THEN Allow
    ELSE IF Min(CompressionMinBars, in.n - RsiPeriod + 1) < RsiValuesNeeded THEN Allow
    ELSE IF in.in_band >= CompressionCandles /\ in.overlap >= OverlapCandles
    THEN Reject(<< "RSI compression + candle overlap (No momentum)" >>)
    ELSE Allow

\* ModePermissionChecker.check_mode_f(day_type, current_time, is_expiry_day)
CheckModeF(day_type, tod, is_expiry_day) ==
    IF day_type \notin MODE_F_ALLOWED_DAY_TYPES
    THEN IF LookupRaises("ROTATIONAL_EXPANSION") THEN Raise("AttributeError")
         ELSE IF day_type = "ROTATIONAL_EXPANSION"
         THEN [ Allow EXCEPT !.reason = << "MODE_F conditional (ROTATIONAL_EXPANSION)" >> ]
         ELSE IF LookupRaises("FAST_REGIME_FLIP") THEN Raise("AttributeError")
         ELSE IF day_type = "FAST_REGIME_FLIP"
         THEN [ Allow EXCEPT !.reason = << "MODE_F conditional (FAST_REGIME_FLIP)" >> ]
         ELSE Reject(<< "MODE_F blocked (Day Type)" >>)
    ELSE IF is_expiry_day /\ tod > LateExpiryTime
    THEN Reject(<< "MODE_F blocked (Late expiry phase)" >>)
    ELSE Allow

\* ------------------------------- RijinBacktestEngine._apply_rijin_gates
\* The stages of _apply_rijin_gates after the consecutive-loss check, in the
\* order of the calls in its body.
Stages == << "phase_filter", "gate_1", "gate_2", "gate_3", "permission" >>

\* What the stage returns for the candidate `in` in the current state.
StageResult(stage, in) ==
    CASE stage = "phase_filter" -> IsModeFAllowed(in)
      [] stage = "gate_1" -> Gate1MoveExhaustion(in)
      [] stage = "gate_2" -> Gate2TimeDayType(in.tod, current_day_type)
      [] stage = "gate_3" -> Gate3RsiCompression(in)
      [] stage = "permission" -> CheckModeF(current_day_type, in.tod, in.is_expiry)

\* The reason _apply_rijin_gates returns for a rejecting stage: the phase
\* filter's reason is prefixed, every other stage's is returned as it is.
ReturnedReason(stage, reason) ==
    IF stage = "phase_filter" THEN << "Phase Filter: " >> \o reason ELSE reason

\* "if not <stage>_pass: return False, <reason>"
StopsChainMutNever(result) == FALSE
StopsChain(result) == ~result.allowed

\* What the model remembers of one evaluation: the candidate's close and
\* direction, the impulse and its expansion at that close as the stages saw
\* them, the stages called with what each returned, and what the evaluation
\* returned (allowed, reason, minutes of pause remaining) or raised.
Verdict(in, allowed, reason, remaining, raised, calls, results) ==
    [ op |-> "_apply_rijin_gates", close |-> in.close, direction |-> in.direction,
      active |-> IsImpulseActive, exp_num |-> ExpansionNum(in.close),
      exp_den |-> ExpansionDen,
      allowed |-> allowed, reason |-> reason, remaining |-> remaining,
      raised |-> raised, calls |-> calls, results |-> results ]

\* The evaluation from stage i on; calls and results are the stages called so
\* far and what each returned.
RECURSIVE RunChain(_, _, _, _)
RunChain(i, in, calls, results) ==
    IF i > Len(Stages)
    THEN Verdict(in, TRUE, << >>, 0, "None", calls, results)
    ELSE LET r == StageResult(Stages[i], in)
             calls2 == Append(calls, Stages[i])
             results2 == Append(results, r)
         IN IF r.raised # "None"
            THEN Verdict(in, FALSE, << >>, 0, r.raised, calls2, results2)
            ELSE IF StopsChain(r)
            THEN Verdict(in, FALSE, ReturnedReason(Stages[i], r.reason), 0, "None",
                         calls2, results2)
            ELSE RunChain(i + 1, in, calls2, results2)

\* No evaluation made yet.
NoVerdict ==
    [ op |-> "init", close |-> 0, direction |-> "None",
      active |-> FALSE, exp_num |-> 0, exp_den |-> 1,
      allowed |-> FALSE, reason |-> << >>, remaining |-> 0, raised |-> "None",
      calls |-> << >>, results |-> << >> ]

\* The candidates and bar windows of the evaluations: the signal's direction,
\* ATR and RSI, the last close, the day's and the last five bars' extremes, the
\* lows and highs of the last three bars, what gate 3 counts (n bars, in_band
\* of the last ten RSI values inside the band, overlap overlapping bars), the
\* time of day in minutes, whether the date is an expiry day, and the
\* indicator that is unavailable, if any.
Candidate(direction, rsi, close, pullback, day_high, rising, bars3, clock) ==
    [ direction |-> direction, atr |-> 10, rsi |-> rsi, close |-> close,
      day_low |-> 100, day_high |-> day_high,
      recent_high |-> close + pullback, recent_low |-> close - pullback,
      lows3 |-> IF rising THEN << 100, 101, 102 >> ELSE << 102, 101, 100 >>,
      highs3 |-> IF rising THEN << 104, 105, 106 >> ELSE << 106, 105, 104 >>,
      n |-> bars3[1], in_band |-> bars3[2], overlap |-> bars3[3],
      tod |-> clock[1], is_expiry |-> clock[2], missing |-> "None" ]

Candidates ==
    { Candidate(direction, rsi, close, pullback, day_high, rising, bars3, clock) :
        direction \in { "BUY", "SELL" }, rsi \in { 45, 55 },
        close \in { 110, 115, 116, 121 }, pullback \in { 0, 6 },
        day_high \in { 127 }, rising \in BOOLEAN,
        bars3 \in { << 14, 10, 5 >>, << 31, 9, 5 >>, << 31, 10, 4 >>, << 31, 10, 5 >> },
        clock \in { << 750, FALSE >>, << 751, FALSE >>, << 841, TRUE >> } }

\* RijinBacktestEngine.__init__ (loss tracking) and no evaluation yet
GatesInit ==
    /\ consecutive_losses = 0
    /\ pause_until = << >>
    /\ verdict = NoVerdict

\* "if time_diff < CONSECUTIVE_LOSS_LIMIT['pause_duration_minutes']" under
\* "if self.pause_until.get(instrument)": the pause set at pause[1] is in force
\* at current_time.
PauseInForceMutInclusive(pause, current_time) ==
    pause # << >> /\ current_time - pause[1] <= PauseDurationMinutes
PauseInForce(pause, current_time) ==
    pause # << >> /\ current_time - pause[1] < PauseDurationMinutes

\* What _apply_rijin_gates returns or raises for the candidate `in`.
GatesVerdict(in) ==
    IF PauseInForce(pause_until, in.tod)
    THEN Verdict(in, FALSE, << "Consecutive Loss Protection: Paused" >>,
                 PauseDurationMinutes - (in.tod - pause_until[1]),
                 "None", << >>, << >>)
    ELSE RunChain(1, in, << >>, << >>)

\* pause_until and consecutive_losses as _apply_rijin_gates leaves them: an
\* expired pause is cleared and the counter reset before the stages run.
PauseAfterGates(in) ==
    IF PauseInForce(pause_until, in.tod) THEN pause_until ELSE << >>

LossesAfterGates(in) ==
    IF pause_until # << >> /\ ~PauseInForce(pause_until, in.tod)
    THEN 0 ELSE consecutive_losses

\* RijinBacktestEngine._apply_rijin_gates(signal, candles, current_time, date)
ApplyRijinGates(in) ==
    /\ verdict' = GatesVerdict(in)
    /\ pause_until' = PauseAfterGates(in)
    /\ consecutive_losses' = LossesAfterGates(in)
    /\ UNCHANGED << impulseVars, dayVars >>

\* ------------------------------------- SystemStopManager (rijin_engine.py)
\* SYSTEM_STOP_TRIGGERS['consecutive_blocks']
ConsecutiveBlocksTrigger == 3

\* SYSTEM_STOP_TRIGGERS['sl_count_after_time']
SlCountAfterTime == 2

\* SYSTEM_STOP_TRIGGERS['sl_after_time'] = 11:30, in minutes of the day
SlAfterTime == 690

\* Largest values of consecutive_blocks and sl_count_after_cutoff explored.
MaxBlocks == 4
MaxSlCount == 3

\* The list literal [DayType.RANGE_CHOPPY, DayType.LIQUIDITY_SWEEP_TRAP] of
\* check_stop_conditions.
StopDayTypeNames == << "RANGE_CHOPPY", "LIQUIDITY_SWEEP_TRAP" >>

\* Building that list evaluates every DayType.<name> in it.
StopListRaises ==
    \E i \in 1..Len(StopDayTypeNames) : LookupRaises(StopDayTypeNames[i])

\* What the model remembers of the last SystemStopManager call: the method,
\* its argument, the fields it found, what it returned or raised.
StopCall(op, arg, should_stop, reason, raised) ==
    [ op |-> op, arg |-> arg, stopped_before |-> stopped,
      blocks_before |-> consecutive_blocks, sl_before |-> sl_count_after_cutoff,
      should_stop |-> should_stop, reason |-> reason, raised |-> raised ]

\* SystemStopManager.__init__
StopInit ==
    /\ stopped = FALSE
    /\ stop_reason = "None"
    /\ consecutive_blocks = 0
    /\ sl_count_after_cutoff = 0
    /\ stop_call = [ op |-> "init", arg |-> "None", stopped_before |-> FALSE,
                     blocks_before |-> 0, sl_before |-> 0,
                     should_stop |-> FALSE, reason |-> "None", raised |-> "None" ]

\* SystemStopManager.reset_for_new_day
StopResetForNewDay ==
    /\ stopped' = FALSE
    /\ stop_reason' = "None"
    /\ consecutive_blocks' = 0
    /\ sl_count_after_cutoff' = 0
    /\ stop_call' = StopCall("reset_for_new_day", "None", FALSE, "None", "None")

\* SystemStopManager.register_block
RegisterBlock ==
    /\ consecutive_blocks' = consecutive_blocks + 1
    /\ stop_call' = StopCall("register_block", "None", FALSE, "None", "None")
    /\ UNCHANGED << stopped, stop_reason, sl_count_after_cutoff >>

\* SystemStopManager.reset_consecutive_blocks
ResetConsecutiveBlocks ==
    /\ consecutive_blocks' = 0
    /\ stop_call' = StopCall("reset_consecutive_blocks", "None", FALSE, "None", "None")
    /\ UNCHANGED << stopped, stop_reason, sl_count_after_cutoff >>

\* "if timestamp.time() > SYSTEM_STOP_TRIGGERS['sl_after_time']"
AfterCutoff(tod) == tod > SlAfterTime

\* SystemStopManager.register_sl(timestamp); tod is timestamp.time()
StopRegisterSl(tod) ==
    /\ sl_count_after_cutoff' =
          IF AfterCutoff(tod) THEN sl_count_after_cutoff + 1 ELSE sl_count_after_cutoff
    /\ stop_call' = StopCall("register_sl", << tod >>, FALSE, "None", "None")
    /\ UNCHANGED << stopped, stop_reason, consecutive_blocks >>

\* "if self.stopped: return True, self.stop_reason"
AlreadyStoppedMutRecheck(is_stopped) == FALSE
AlreadyStopped(is_stopped) == is_stopped

\* What check_stop_conditions(day_type) returns or raises, for the fields
\* is_stopped, reason, blocks and sl_count it finds.
StopOutcome(is_stopped, reason, blocks, sl_count, day_type) ==
    IF AlreadyStopped(is_stopped)
    THEN [ should_stop |-> TRUE, reason |-> reason, raised |-> "None" ]
    ELSE IF StopListRaises
    THEN [ should_stop |-> FALSE, reason |-> "None", raised |-> "AttributeError" ]
    ELSE IF \E i \in 1..Len(StopDayTypeNames) : StopDayTypeNames[i] = day_type
    THEN [ should_stop |-> TRUE, reason |-> "Market conditions hostile",
           raised |-> "None" ]
    ELSE IF blocks >= ConsecutiveBlocksTrigger
    THEN [ should_stop |-> TRUE, reason |-> "3 consecutive execution blocks",
           raised |-> "None" ]
    ELSE IF sl_count >= SlCountAfterTime
    THEN [ should_stop |-> TRUE, reason |-> "2 stop losses after 11:30 IST",
           raised |-> "None" ]
    ELSE [ should_stop |-> FALSE, reason |-> "None", raised |-> "None" ]

\* SystemStopManager.check_stop_conditions(day_type)
CheckStopConditions(day_type) ==
    LET outcome == StopOutcome(stopped, stop_reason, consecutive_blocks,
                               sl_count_after_cutoff, day_type)
    IN /\ stop_call' = StopCall("check_stop_conditions", day_type,
                                outcome.should_stop, outcome.reason, outcome.raised)
       /\ IF outcome.should_stop
          THEN stopped' = TRUE /\ stop_reason' = outcome.reason
          ELSE UNCHANGED << stopped, stop_reason >>
       /\ UNCHANGED << consecutive_blocks, sl_count_after_cutoff >>

\* SystemStopManager.force_stop(reason)
ForceStop(reason) ==
    /\ stopped' = TRUE
    /\ stop_reason' = reason
    /\ stop_call' = StopCall("force_stop", reason, FALSE, "None", "None")
    /\ UNCHANGED << consecutive_blocks, sl_count_after_cutoff >>

\* --------------------------------- RijinBacktestEngine._execute_trade
\* CONSECUTIVE_LOSS_LIMIT['max_consecutive_losses']
MaxConsecutiveLosses == 2

\* CONSECUTIVE_LOSS_LIMIT['reset_on_win']
ResetOnWinMutOff == FALSE
ResetOnWin == TRUE

\* "if self.consecutive_losses[instrument] >= max_consecutive_losses"
LimitReachedMutEarly(losses) == losses >= MaxConsecutiveLosses - 1
LimitReached(losses) == losses >= MaxConsecutiveLosses

\* 9:15, the first candle _process_day trades on, in minutes of the day
SessionOpen == 555

\* Last candle time explored in the backtest loop.
MaxCandleTime == 640

\* Minutes from one processed signal candle to the next, and from a trade's
\* entry candle to its exit candle (5 minute candles).
CandleSteps == { 5, 30 }
ExitDelays == { 5, 30 }

\* How the scan of _execute_trade ends: the stop-loss or the target is hit on
\* some later candle, or no candle of the day hits either.
ExitTypes == { "SL", "TARGET", "NONE" }

\* What the model remembers of the last _execute_trade call: the entry and
\* exit candle times, how the scan ended, the counter and the pause the call
\* found, and how the last trade closed before it ("NONE": no close yet).
NoTrade ==
    [ op |-> "init", entry_time |-> 0, exit_type |-> "NONE", exit_time |-> 0,
      losses_before |-> 0, pause_before |-> << >>, prev_close |-> "NONE" ]

TradeInit ==
    /\ candle_time = SessionOpen
    /\ trade = NoTrade

\* RijinBacktestEngine._execute_trade(signal, all_candles, entry_idx, date) for a
\* trade entered at entry_time whose scan ends with exit_type on the candle
\* dated exit_time; losses and pause are consecutive_losses['NIFTY'] and
\* pause_until['NIFTY'] as the call finds them.
ExecuteTrade(losses, pause, entry_time, exit_type, exit_time) ==
    /\ trade' = [ op |-> "_execute_trade", entry_time |-> entry_time,
                  exit_type |-> exit_type, exit_time |-> exit_time,
                  losses_before |-> losses, pause_before |-> pause,
                  prev_close |-> IF trade.exit_type # "NONE" THEN trade.exit_type
                                 ELSE trade.prev_close ]
    /\ IF exit_type = "SL"
       THEN /\ consecutive_losses' = losses + 1
            /\ pause_until' = IF LimitReached(losses + 1) THEN << exit_time >> ELSE pause
            /\ StopRegisterSl(exit_time)
       ELSE IF exit_type = "TARGET" /\ ResetOnWin
       THEN /\ consecutive_losses' = 0
            /\ pause_until' = pause
            /\ UNCHANGED stopVars
       ELSE /\ consecutive_losses' = losses
            /\ pause_until' = pause
            /\ UNCHANGED stopVars

\* The signals of the backtest loop, before their candle time is known.
BacktestSignals ==
    { Candidate("BUY", 55, close, 0, 127, TRUE, << 31, 10, 4 >>, << 0, FALSE >>) :
        close \in { 110, 121 } }

\* One candle of the _process_day loop that carries a signal: the signal goes
\* through _apply_rijin_gates and, if allowed, _execute_trade runs to the exit.
ProcessSignal(in) ==
    /\ candle_time' = in.tod
    /\ verdict' = GatesVerdict(in)
    /\ UNCHANGED << impulseVars, dayVars >>
    /\ IF GatesVerdict(in).allowed
       THEN \E exit_type \in ExitTypes, delay \in ExitDelays :
                ExecuteTrade(LossesAfterGates(in), PauseAfterGates(in), in.tod,
                             exit_type, in.tod + delay)
       ELSE /\ pause_until' = PauseAfterGates(in)
            /\ consecutive_losses' = LossesAfterGates(in)
            /\ UNCHANGED << trade, stopVars >>

\* --------------------------------------- CorrelationBrake (rijin_engine.py)
\* The two instruments of the live runner.
Instruments == { "NIFTY", "SENSEX" }

\* RijinIntegratedRunner.get_other_instrument
GetOtherInstrument(instrument) == IF instrument = "NIFTY" THEN "SENSEX" ELSE "NIFTY"

\* RijinIntegratedRunner.are_indices_correlated
AreIndicesCorrelated == TRUE

\* CORRELATION_BRAKE_CONFIG['sl_count_trigger']
SlCountTrigger == 2

\* CORRELATION_BRAKE_CONFIG['time_window_minutes']
TimeWindowMinutes == 60

\* CORRELATION_BRAKE_CONFIG['block_duration_minutes']
BlockDurationMinutes == 60

\* deque(maxlen=10) of register_sl
SlHistoryMaxLen == 10

\* Largest wall-clock minute and largest number of registered stop-losses
\* explored.
MaxClock == 100
MaxSlRegistered == 2

\* Minutes between two events of the live runner.
ClockSteps == { 20, 50 }

\* CorrelationBrake.__init__ (an instrument without a key in a dict is mapped
\* to the empty sequence)
BrakeInit ==
    /\ sl_history = [ i \in Instruments |-> << >> ]
    /\ blocked_instruments = [ i \in Instruments |-> << >> ]
    /\ brake_call = [ op |-> "init", a |-> "None", b |-> "None", current_time |-> 0,
                      blocked |-> FALSE, reason |-> "None" ]

\* deque.append with maxlen: the oldest entry is dropped when full.
DequeAppend(q, x) ==
    IF Len(q) >= SlHistoryMaxLen THEN Append(Tail(q), x) ELSE Append(q, x)

\* CorrelationBrake.register_sl(instrument, direction, day_type, timestamp)
BrakeRegisterSl(instrument, direction, day_type, timestamp) ==
    /\ sl_history' = [ sl_history EXCEPT ![instrument] =
                          DequeAppend(@, [ ts |-> timestamp, direction |-> direction,
                                           day_type |-> day_type ]) ]
    /\ brake_call' = [ op |-> "register_sl", a |-> instrument, b |-> "None",
                       current_time |-> timestamp, blocked |-> FALSE,
                       reason |-> "None" ]
    /\ UNCHANGED blocked_instruments

\* CorrelationBrake._clear_expired_blocks(current_time), as the dict it
\* leaves of the dict `blocked`
ClearExpired(blocked, current_time) ==
    [ i \in Instruments |->
        IF blocked[i] # << >> /\ current_time >= blocked[i][1]
        THEN << >> ELSE blocked[i] ]

ClearExpiredBlocks(current_time) == ClearExpired(blocked_instruments, current_time)

\* "if (current_time - sl[0]).total_seconds() <= time_window_minutes * 60"
IsRecent(sl, current_time) == current_time - sl.ts <= TimeWindowMinutes

\* "same_direction = last_two[0][1] == last_two[1][1]"
SameDirectionMutAny(sl_1, sl_2) == TRUE
SameDirection(sl_1, sl_2) == sl_1.direction = sl_2.direction

\* "same_day_type = last_two[0][2] == last_two[1][2]"
SameDayType(sl_1, sl_2) == sl_1.day_type = sl_2.day_type

\* What check_and_block(instrument_a, instrument_b, current_time,
\* indices_correlated) returns and the dict blocked_instruments it leaves, for
\* the history `history` and the dict `blocked` it finds.
BrakeOutcome(history, blocked, instrument_a, instrument_b, current_time, indices_correlated) ==
    LET cleared == ClearExpired(blocked, current_time)
        IsRecentNow(sl) == IsRecent(sl, current_time)
        recent_sls == SelectSeq(history[instrument_a], IsRecentNow)
        n == Len(recent_sls)
    IN IF cleared[instrument_b] # << >>
       THEN [ blocked |-> TRUE, reason |-> "Correlation brake active",
              blocked_instruments |-> cleared ]
       ELSE IF n < SlCountTrigger
       THEN [ blocked |-> FALSE, reason |-> "None", blocked_instruments |-> cleared ]
       ELSE IF /\ n >= 2
               /\ SameDirection(recent_sls[n - 1], recent_sls[n])
               /\ SameDayType(recent_sls[n - 1], recent_sls[n])
               /\ indices_correlated
       THEN [ blocked |-> TRUE, reason |-> "2 SLs within 60min",
              blocked_instruments |->
                  [ cleared EXCEPT ![instrument_b] =
                                      << current_time + BlockDurationMinutes >> ] ]
       ELSE [ blocked |-> FALSE, reason |-> "None", blocked_instruments |-> cleared ]

\* What the model remembers of a check_and_block call.
BrakeCheckCall(instrument_a, instrument_b, current_time, outcome) ==
    [ op |-> "check_and_block", a |-> instrument_a, b |-> instrument_b,
      current_time |-> current_time, blocked |-> outcome.blocked,
      reason |-> outcome.reason ]

\* CorrelationBrake.check_and_block(instrument_a, instrument_b, current_time,
\* indices_correlated)
CheckAndBlock(instrument_a, instrument_b, current_time, indices_correlated) ==
    LET outcome == BrakeOutcome(sl_history, blocked_instruments, instrument_a,
                                instrument_b, current_time, indices_correlated)
    IN /\ blocked_instruments' = outcome.blocked_instruments
       /\ brake_call' = BrakeCheckCall(instrument_a, instrument_b, current_time,
                                       outcome)
       /\ UNCHANGED sl_history

\* ------------------------------ RijinIntegratedRunner (rijin_runner.py)
\* The wall clock counts minutes; a day has MinutesPerDay of them.
MinutesPerDay == 1440

\* current_time.time() in minutes of the day, and current_time.date()
Tod(t) == t % MinutesPerDay

DateOf(t) == t \div MinutesPerDay

\* TRADING_CUTOFF = 14:30
TradingCutoff == 870

\* OPENING_IMPULSE_CONFIG['time_start'] = 9:20 and ['time_end'] = 10:00
OpeningImpulseStart == 560
OpeningImpulseEnd == 600

\* MODE_S_CORE_CUTOFF = 13:30 and MODE_S_LIQUIDITY_CUTOFF = 13:00
ModeSCoreCutoff == 810
ModeSLiquidityCutoff == 780

\* MODE_S_CORE_STABILITY_ALLOWED and MODE_S_LIQUIDITY_ALLOWED
MODE_S_CORE_STABILITY_ALLOWED == { "CLEAN_TREND", "NORMAL_TREND" }
MODE_S_LIQUIDITY_ALLOWED == { "CLEAN_TREND", "NORMAL_TREND" }

\* DAY_TYPE_CHECK_TIMES, in minutes of the day
DAY_TYPE_CHECK_TIMES == { 600, 630, 660, 690, 720, 750, 780, 810, 840, 870 }

\* The polling loop is explored from LiveStart to MaxLiveTod on the days
\* 0..MaxDay.
LiveStart == 550
MaxLiveTod == 610
MaxDay == 1

\* Minutes between two calls, and the labels the day is classified with, in
\* the model of the entry decisions.
EntrySteps == { 30 }

EntryLabels == { "CLEAN_TREND", "RANGE_CHOPPY" }

\* Minutes between two iterations in the runner with trades.
ManageSteps == { 0, 30 }

\* Minutes after the trading cutoff at which a late iteration is followed.
LateSteps == { 1, 30 }

\* Minutes between two iterations of the polling loop (0: the next iteration
\* falls into the same minute).
LiveSteps == { 0, 5, 20 }

\* DayTypeEngine.should_run_check(current_time)
ShouldRunCheck(t) ==
    /\ \E check_time \in DAY_TYPE_CHECK_TIMES : Abs(Tod(t) - check_time) <= 5
    /\ (last_check_time # << >> => t - last_check_time[1] >= 25)

\* ModePermissionChecker.check_mode_s_core(day_type, current_time)
CheckModeSCore(day_type, tod) ==
    IF day_type \notin MODE_S_CORE_STABILITY_ALLOWED
    THEN Reject(<< "MODE_S CORE blocked (Day Type)" >>)
    ELSE IF tod > ModeSCoreCutoff
    THEN Reject(<< "MODE_S CORE blocked (After 13:30)" >>)
    ELSE Allow

\* The list literal of check_mode_s_liquidity.
HostileDayTypeNames ==
    << "EXPIRY_DISTORTION", "RANGE_CHOPPY", "LIQUIDITY_SWEEP_TRAP",
       "ROTATIONAL_EXPANSION", "FAST_REGIME_FLIP" >>

\* ModePermissionChecker.check_mode_s_liquidity(day_type, current_time)
CheckModeSLiquidity(day_type, tod) ==
    IF day_type \notin MODE_S_LIQUIDITY_ALLOWED
    THEN Reject(<< "MODE_S LIQUIDITY blocked (Day Type)" >>)
    ELSE IF tod > ModeSLiquidityCutoff
    THEN Reject(<< "MODE_S LIQUIDITY blocked (After 13:00)" >>)
    ELSE IF \E i \in 1..Len(HostileDayTypeNames) : LookupRaises(HostileDayTypeNames[i])
    THEN Raise("AttributeError")
    ELSE IF \E i \in 1..Len(HostileDayTypeNames) : HostileDayTypeNames[i] = day_type
    THEN Reject(<< "No forced trades on hostile days" >>)
    ELSE Allow

\* ------------------------------------- the gates and checks called directly
\* The static methods of TrendPhaseEngine, ExecutionGates and
\* ModePermissionChecker that answer (allowed, reason).
CheckNames ==
    { "is_mode_f_allowed", "check_mid_phase_conditions", "gate_1_move_exhaustion",
      "gate_2_time_day_type", "gate_3_rsi_compression", "check_mode_f",
      "check_mode_s_core", "check_mode_s_liquidity" }

\* What the named check returns or raises for the input `in`; the checks of
\* the day type are passed the engine's current label.
CheckResult(name, in) ==
    CASE name = "is_mode_f_allowed" -> IsModeFAllowed(in)
      [] name = "check_mid_phase_conditions" -> CheckMidPhaseConditions(in)
      [] name = "gate_1_move_exhaustion" -> Gate1MoveExhaustion(in)
      [] name = "gate_2_time_day_type" -> Gate2TimeDayType(in.tod, current_day_type)
      [] name = "gate_3_rsi_compression" -> Gate3RsiCompression(in)
      [] name = "check_mode_f" -> CheckModeF(current_day_type, in.tod, in.is_expiry)
      [] name = "check_mode_s_core" -> CheckModeSCore(current_day_type, in.tod)
      [] name = "check_mode_s_liquidity" -> CheckModeSLiquidity(current_day_type, in.tod)

\* A candidate with every indicator and thirty-one bars, early in the session.
FullCandidate(direction, rsi, close, pullback, rising) ==
    Candidate(direction, rsi, close, pullback, 127, rising, << 31, 9, 5 >>, << 750, FALSE >>)

\* The same candidate with n bars only and the indicator `missing` unavailable.
Unavailable(in, n, missing) == [ in EXCEPT !.n = n, !.missing = missing ]

\* What can be unavailable: no bar at all, two bars only, no ATR, no RSI.
Shortfalls == { << 0, "None" >>, << 2, "None" >>, << 31, "atr" >>, << 31, "rsi" >> }

\* The candidates the phase filter and the MID conditions are called with.
PhaseInputs ==
    { FullCandidate(direction, rsi, close, pullback, rising) :
        direction \in { "BUY", "SELL" }, rsi \in { 45, 55 },
        close \in { 110, 112, 120, 121 }, pullback \in { 0, 6 }, rising \in BOOLEAN }
    \cup
    { Unavailable(FullCandidate("BUY", 55, close, pullback, rising), short[1], short[2]) :
        close \in { 110, 112, 121 }, pullback \in { 0, 6 }, rising \in BOOLEAN,
        short \in Shortfalls }

\* The candidates gate 1 is called with.
Gate1Inputs ==
    { Unavailable(FullCandidate(direction, 55, close, 0, TRUE), short[1], short[2]) :
        direction \in { "BUY", "SELL" }, close \in { 110, 121 },
        short \in Shortfalls \cup { << 31, "None" >> } }

\* The bar windows gate 3 is called with.
Gate3Inputs ==
    { Candidate("BUY", 55, 110, 0, 127, TRUE, bars3, << 750, FALSE >>) :
        bars3 \in { << 0, 0, 0 >>, << 14, 10, 5 >>, << 20, 5, 5 >>, << 31, 10, 4 >>,
                    << 31, 10, 5 >> } }

\* The times the checks of time and day type are called at.
ClockInputs ==
    { Candidate("BUY", 55, 110, 0, 127, TRUE, << 31, 9, 5 >>, clock) :
        clock \in { << 750, FALSE >>, << 751, FALSE >>, << 841, TRUE >> } }

CheckInputs(name) ==
    CASE name \in { "is_mode_f_allowed", "check_mid_phase_conditions" } -> PhaseInputs
      [] name = "gate_1_move_exhaustion" -> Gate1Inputs
      [] name = "gate_3_rsi_compression" -> Gate3Inputs
      [] OTHER -> ClockInputs

\* What the model remembers of one direct call: the check, its input, the
\* label, impulse and expansion it saw, the phase the phase filter answered
\* with, and what it returned or raised.
Checked(name, in, result) ==
    [ op |-> name, input |-> in, day_type |-> current_day_type,
      active |-> IsImpulseActive, exp_num |-> ExpansionNum(in.close),
      exp_den |-> ExpansionDen,
      phase |-> IF name = "is_mode_f_allowed" THEN PhaseOf(in) ELSE "None",
      allowed |-> result.allowed, reason |-> result.reason, raised |-> result.raised ]

\* No direct call made yet.
CheckCallInit ==
    check_call = [ op |-> "init", input |-> FullCandidate("BUY", 55, 110, 0, TRUE),
                   day_type |-> "UNKNOWN", active |-> FALSE, exp_num |-> 0,
                   exp_den |-> 1, phase |-> "None", allowed |-> FALSE,
                   reason |-> << >>, raised |-> "None" ]

\* The checks are static methods that assign to no attribute; of the engines
\* they are handed they call is_impulse_active and get_expansion_from_impulse
\* only, which return without assigning.
ImpulseAfterCheckMutCleared(stored) == << >>
ImpulseAfterCheck(stored) == stored

\* One direct call of a check.
CheckCall(name, in) ==
    /\ check_call' = Checked(name, in, CheckResult(name, in))
    /\ impulse_origin' = ImpulseAfterCheck(impulse_origin)
    /\ UNCHANGED << impulse_atr, impulse_direction, impulse_time, swing_high, swing_low >>

\* RijinIntegratedRunner.__init__ and OpeningImpulseTracker.__init__
RunnerInit ==
    /\ active_trades = [ i \in Instruments |-> << >> ]
    /\ runner_day_type = "UNKNOWN"
    /\ last_processed = [ i \in Instruments |-> << >> ]
    /\ last_reset_date = << >>
    /\ impulse_fired = [ i \in Instruments |-> FALSE ]
    /\ total_impulse_count = 0
    /\ loop = [ op |-> "init", name |-> "None", current_time |-> 0,
                branch |-> "None",
                should_stop |-> FALSE, raised |-> "None", evals |-> << >>,
                reached |-> [ i \in Instruments |-> "NONE" ] ]

\* The time of c5[-2], the last completed 5 minute candle at time t.
LastCandleTime(t) == (t \div 5) * 5 - 5

\* What the data of one instrument is in one iteration: whether the fetch
\* gives enough candles, whether the completed candle hits the stop or the
\* target of a trade, whether check_impulse_conditions holds, whether the
\* strategy engine gives a signal, its direction and bucket, and whether the
\* date is the instrument's expiry day.
LiveInput(fetch_ok, exit, impulse_valid, signal) ==
    [ fetch_ok |-> fetch_ok, exit |-> exit, impulse_valid |-> impulse_valid,
      signal |-> signal, direction |-> "BUY", bucket |-> "CORE",
      is_expiry |-> FALSE ]

\* The data explored: no candles; candles without any event; a valid opening
\* impulse; a strategy signal; a candle at the stop together with a strategy
\* signal; a candle at the target.
LiveInputs ==
    { LiveInput(FALSE, "NONE", FALSE, FALSE),
      LiveInput(TRUE, "NONE", FALSE, FALSE),
      LiveInput(TRUE, "NONE", TRUE, FALSE),
      LiveInput(TRUE, "NONE", FALSE, TRUE),
      LiveInput(TRUE, "SL HIT", FALSE, TRUE),
      LiveInput(TRUE, "TARGET HIT", FALSE, FALSE) }

\* What run_day_type_analysis gets in one iteration: no candles, or the label
\* classify_day computes from them.
NoAnalysis == [ fetched |-> FALSE, new_type |-> "UNKNOWN" ]

DayAnalyses == { NoAnalysis } \cup [ fetched : { TRUE }, new_type : DayType ]

\* The analyses an iteration at time t can get: run_day_type_analysis is only
\* called when should_run_check says so.
AnalysesAt(t) == IF ShouldRunCheck(t) THEN DayAnalyses ELSE { NoAnalysis }

\* The fields of the runner and its components that process_instrument reads
\* and writes, as a record that is passed from one call to the next.
RunnerState ==
    [ active |-> active_trades, last_processed |-> last_processed,
      fired |-> impulse_fired, total |-> total_impulse_count,
      blocks |-> consecutive_blocks, sl_count |-> sl_count_after_cutoff,
      history |-> sl_history, blocked |-> blocked_instruments,
      stop_call |-> stop_call, brake_call |-> brake_call, evals |-> << >> ]

\* One entry of the evaluations of an iteration.
Evaluation(instrument, mode, outcome, reason) ==
    [ instrument |-> instrument, mode |-> mode, outcome |-> outcome,
      reason |-> reason, passed |-> << >> ]

\* The checks rijin_execute makes, in its order: gate 2, the mode's
\* permission and the correlation brake (gates 1 and 3 are "Simplified" to
\* True and call nothing).
ExecutionChecks == << "gate_2", "permission", "brake" >>

\* The last evaluation was made after the first n checks of rijin_execute
\* had allowed the signal.
AfterChecks(rs, n) ==
    [ rs EXCEPT !.evals[Len(rs.evals)].passed = SubSeq(ExecutionChecks, 1, n) ]

\* RijinIntegratedRunner.check_exits(instrument, c5)
CheckExits(rs, instrument, exit, t, day_type) ==
    IF rs.active[instrument] = << >> \/ exit = "NONE"
    THEN rs
    ELSE LET closed == [ rs EXCEPT !.active[instrument] = << >> ]
         IN IF exit = "SL HIT"
            THEN [ closed EXCEPT
                     !.history[instrument] =
                         DequeAppend(@, [ ts |-> t,
                                          direction |-> rs.active[instrument][1].direction,
                                          day_type |-> day_type ]),
                     !.brake_call = [ op |-> "register_sl", a |-> instrument,
                                      b |-> "None", current_time |-> t,
                                      blocked |-> FALSE, reason |-> "None" ],
                     !.sl_count = IF AfterCutoff(Tod(t)) THEN @ + 1 ELSE @,
                     !.stop_call = [ op |-> "register_sl", arg |-> << Tod(t) >>,
                                     stopped_before |-> stopped,
                                     blocks_before |-> rs.blocks,
                                     sl_before |-> rs.sl_count,
                                     should_stop |-> FALSE, reason |-> "None",
                                     raised |-> "None" ] ]
            ELSE closed

\* OpeningImpulseTracker.is_allowed(instrument, current_time, is_expiry_day,
\* indices_correlated)
OpeningImpulseAllowed(rs, instrument, t, is_expiry_day, indices_correlated) ==
    /\ OpeningImpulseStart <= Tod(t) /\ Tod(t) <= OpeningImpulseEnd
    /\ ~rs.fired[instrument]
    /\ ~(indices_correlated /\ rs.total >= 1)
    /\ ~is_expiry_day

\* RijinIntegratedRunner.execute_signal(signal, current_time, is_impulse)
ExecuteSignal(rs, instrument, mode, direction, t) ==
    [ rs EXCEPT !.active[instrument] =
                    << [ mode |-> mode, direction |-> direction, entry_time |-> t ] >>,
                !.evals = Append(@, Evaluation(instrument, mode, "admitted", << >>)) ]

\* "self.send_signal_blocked(...); self.system_stop.register_block(); return False"
SignalBlocked(rs, instrument, mode, reason) ==
    [ rs EXCEPT !.blocks = @ + 1,
                !.stop_call = [ op |-> "register_block", arg |-> "None",
                                stopped_before |-> stopped,
                                blocks_before |-> rs.blocks,
                                sl_before |-> rs.sl_count,
                                should_stop |-> FALSE, reason |-> "None",
                                raised |-> "None" ],
                !.evals = Append(@, Evaluation(instrument, mode, "blocked", reason)) ]

\* A gate raised: the exception leaves rijin_execute and is caught in
\* process_instrument.
SignalRaised(rs, instrument, mode, exc) ==
    [ rs EXCEPT !.evals = Append(@, Evaluation(instrument, mode, "raised", << exc >>)) ]

\* RijinIntegratedRunner.rijin_execute(signal, current_time, is_expiry)
RijinExecute(rs, instrument, mode, inp, t, day_type) ==
    LET gate_2 == Gate2TimeDayType(Tod(t), day_type)
        perm == IF mode = "MODE_F" THEN CheckModeF(day_type, Tod(t), inp.is_expiry)
                ELSE IF inp.bucket \in { "CORE", "STABILITY" }
                THEN CheckModeSCore(day_type, Tod(t))
                ELSE CheckModeSLiquidity(day_type, Tod(t))
        other_inst == GetOtherInstrument(instrument)
        brake == BrakeOutcome(rs.history, rs.blocked, other_inst, instrument, t,
                              AreIndicesCorrelated)
        braked == [ rs EXCEPT !.blocked = brake.blocked_instruments,
                              !.brake_call = BrakeCheckCall(other_inst, instrument,
                                                            t, brake) ]
    IN IF gate_2.raised # "None" THEN SignalRaised(rs, instrument, mode, gate_2.raised)
       ELSE IF ~gate_2.allowed THEN SignalBlocked(rs, instrument, mode, gate_2.reason)
       ELSE IF perm.raised # "None"
       THEN AfterChecks(SignalRaised(rs, instrument, mode, perm.raised), 1)
       ELSE IF ~perm.allowed
       THEN AfterChecks(SignalBlocked(rs, instrument, mode, perm.reason), 1)
       ELSE IF brake.blocked
       THEN AfterChecks(SignalBlocked(braked, instrument, mode, << brake.reason >>), 2)
       ELSE LET executed == AfterChecks(ExecuteSignal(braked, instrument, mode,
                                                      inp.direction, t), 3)
            IN [ executed EXCEPT
                   !.blocks = 0,
                   !.stop_call = [ op |-> "reset_consecutive_blocks", arg |-> "None",
                                   stopped_before |-> stopped,
                                   blocks_before |-> braked.blocks,
                                   sl_before |-> braked.sl_count,
                                   should_stop |-> FALSE, reason |-> "None",
                                   raised |-> "None" ] ]

\* "if instrument in self.active_trades: return"
SkipsNewEntriesMutNever(active, instrument) == FALSE
SkipsNewEntries(active, instrument) == active[instrument] # << >>

\* RijinIntegratedRunner.process_instrument(name, instrument, token, current_time)
ProcessInstrument(rs, instrument, inp, t, day_type) ==
    IF ~inp.fetch_ok
    THEN rs
    ELSE LET exited == CheckExits(rs, instrument, inp.exit, t, day_type)
             last_candle_time == << LastCandleTime(t) >>
             seen == [ exited EXCEPT !.last_processed[instrument] = last_candle_time ]
             mode == IF instrument = "NIFTY" THEN "MODE_F" ELSE "MODE_S"
         IN IF SkipsNewEntries(exited.active, instrument) THEN exited
            ELSE IF exited.last_processed[instrument] = last_candle_time THEN exited
            ELSE IF /\ OpeningImpulseAllowed(exited, instrument, t, inp.is_expiry,
                                             AreIndicesCorrelated)
                    /\ inp.impulse_valid
            THEN ExecuteSignal([ seen EXCEPT !.fired[instrument] = TRUE,
                                             !.total = @ + 1 ],
                               instrument, "OPENING_IMPULSE", inp.direction, t)
            ELSE IF ~inp.signal THEN seen
            ELSE LET executed == RijinExecute(exited, instrument, mode, inp, t, day_type)
                     n == Len(executed.evals)
                 IN IF executed.evals[n].outcome = "raised"
                    THEN executed
                    ELSE [ executed EXCEPT
                             !.last_processed[instrument] = last_candle_time ]

\* "for name, inst in self.instruments.items(): self.process_instrument(...)"
ProcessInstruments(rs, inp_nifty, inp_sensex, t, day_type) ==
    ProcessInstrument(ProcessInstrument(rs, "NIFTY", inp_nifty, t, day_type),
                      "SENSEX", inp_sensex, t, day_type)

\* The runner writes the record back to the fields it stands for.
WriteRunnerState(rs) ==
    /\ active_trades' = rs.active
    /\ last_processed' = rs.last_processed
    /\ impulse_fired' = rs.fired
    /\ total_impulse_count' = rs.total
    /\ consecutive_blocks' = rs.blocks
    /\ sl_count_after_cutoff' = rs.sl_count
    /\ sl_history' = rs.history
    /\ blocked_instruments' = rs.blocked
    /\ brake_call' = rs.brake_call

\* "if current_time.time() < dtime(9, 15): if current_time.date() !=
\* getattr(self, 'last_reset_date', None)"
NeedsDailyReset(t) ==
    Tod(t) < SessionOpen /\ last_reset_date # << DateOf(t) >>

\* RijinIntegratedRunner.reset_for_new_day(date), on the record: the trades,
\* the opening impulse tracker and the stop manager's counters start afresh;
\* the cached label, the correlation brake and last_processed are kept.
RunnerResetForNewDay(rs) ==
    [ rs EXCEPT !.active = [ i \in Instruments |-> << >> ],
                !.fired = [ i \in Instruments |-> FALSE ],
                !.total = 0,
                !.blocks = 0,
                !.sl_count = 0,
                !.stop_call = StopCall("reset_for_new_day", "None", FALSE, "None",
                                       "None") ]

\* RijinIntegratedRunner.run_day_type_analysis(current_time): the fetch fails,
\* or classify_day gives new_type and update_day_type runs; the runner's cached
\* label follows unless update_day_type raised.
RunDayTypeAnalysis(t, fetched, new_type) ==
    IF fetched
    THEN /\ UpdateDayType(new_type, t)
         /\ runner_day_type' =
               IF call'.raised = "None" THEN current_day_type' ELSE runner_day_type
    ELSE UNCHANGED << dayVars, runner_day_type >>

\* "if should_stop: ... self.manage_open_trades_only(); time.sleep(30); continue"
SkipsProcessingMutNever(should_stop) == FALSE
SkipsProcessing(should_stop) == should_stop

\* What the model remembers of an iteration of run_loop: its time, the branch
\* it took, what the stop check said, the evaluations it made, and the level
\* the last completed candle of each instrument reached during it.
Loop(t, branch, should_stop, raised, evals, reached) ==
    [ op |-> "run_loop", name |-> "None", current_time |-> t, branch |-> branch,
      should_stop |-> should_stop, raised |-> raised, evals |-> evals,
      reached |-> reached ]

\* The record of a check_stop_conditions call made on the fields of `rs`.
StopChecked(rs, is_stopped, day_type, outcome) ==
    [ op |-> "check_stop_conditions", arg |-> day_type,
      stopped_before |-> is_stopped, blocks_before |-> rs.blocks,
      sl_before |-> rs.sl_count, should_stop |-> outcome.should_stop,
      reason |-> outcome.reason, raised |-> outcome.raised ]

\* One iteration of the while loop of run_loop at current_time t. The daily
\* reset happens before 9:15, the day-type checks from 9:55 on and the cutoff
\* at 14:30, so an iteration that resets neither classifies nor is cut off.
RunLoopIteration(t, fetched, new_type, inp_nifty, inp_sensex) ==
    LET reset == NeedsDailyReset(t)
        start == IF reset THEN RunnerResetForNewDay(RunnerState) ELSE RunnerState
        is_stopped == ~reset /\ stopped
        reason == IF reset THEN "None" ELSE stop_reason
        reached == [ i \in Instruments |->
                       IF i = "NIFTY" THEN inp_nifty.exit ELSE inp_sensex.exit ]
    IN /\ last_reset_date' = IF reset THEN << DateOf(t) >> ELSE last_reset_date
       /\ IF Tod(t) > TradingCutoff
          THEN /\ loop' = Loop(t, "cutoff", FALSE, "None", << >>, reached)
               /\ WriteRunnerState(start)
               /\ stop_call' = start.stop_call
               /\ stopped' = is_stopped
               /\ stop_reason' = reason
               /\ UNCHANGED << dayVars, runner_day_type >>
          ELSE /\ IF reset
                  THEN ResetForNewDay /\ UNCHANGED runner_day_type
                  ELSE IF ShouldRunCheck(t)
                  THEN RunDayTypeAnalysis(t, fetched, new_type)
                  ELSE UNCHANGED << dayVars, runner_day_type >>
               /\ LET outcome == StopOutcome(is_stopped, reason, start.blocks,
                                             start.sl_count, current_day_type')
                      checked == StopChecked(start, is_stopped, current_day_type',
                                             outcome)
                  IN IF outcome.raised # "None"
                     THEN /\ loop' = Loop(t, "error", FALSE, outcome.raised, << >>,
                                            reached)
                          /\ WriteRunnerState(start)
                          /\ stop_call' = checked
                          /\ stopped' = is_stopped
                          /\ stop_reason' = reason
                     ELSE /\ stopped' = (is_stopped \/ outcome.should_stop)
                          /\ stop_reason' = IF outcome.should_stop
                                            THEN outcome.reason ELSE reason
                          /\ IF SkipsProcessing(outcome.should_stop)
                             THEN /\ loop' = Loop(t, "stopped", TRUE, "None", << >>,
                                                    reached)
                                  /\ WriteRunnerState(start)
                                  /\ stop_call' = checked
                             ELSE LET rs == ProcessInstruments(
                                                [ start EXCEPT !.stop_call = checked ],
                                                inp_nifty, inp_sensex, t,
                                                runner_day_type')
                                  IN /\ WriteRunnerState(rs)
                                     /\ stop_call' = rs.stop_call
                                     /\ loop' = Loop(t, "process",
                                                     outcome.should_stop, "None",
                                                     rs.evals, reached)

\* ------------------------------------- the polling loops and their stop event
\* The two polling loops: RijinIntegratedRunner.run_loop and RijinLiveEngine.run.
PollLoops == { "run_loop", "run" }

\* AI_CALL_DELAY of rijin_live.py, in seconds
AI_CALL_DELAY == 2

\* The ways an iteration of a loop ends. run_loop: after the cutoff, system
\* stopped, instruments processed, exception. run: outside the session, too
\* few candles or no indicators, stale candles, exit check of the active
\* trade, signal interval not over, no signal or a signal the validator could
\* not judge, a signal the validator judged, exception.
PollBranches(l) ==
    IF l = "run_loop" THEN { "cutoff", "stopped", "process", "error" }
    ELSE { "closed", "no_data", "stale", "exit_check", "wait", "signal", "validated",
           "error" }

\* How an iteration pauses before the next one: run_loop calls time.sleep,
\* which returns when its seconds are over; run calls self._stop_event.wait,
\* which returns when the event is set or its seconds are over, except that
\* validate_signal_with_ai ends in time.sleep(AI_CALL_DELAY).
PauseKind(l, branch) ==
    IF l = "run_loop" \/ branch = "validated" THEN "sleep" ELSE "wait"

\* The seconds of the pause that ends an iteration.
PauseSeconds(l, branch) ==
    IF l = "run_loop" THEN (IF branch = "process" THEN 10 ELSE 30)
    ELSE CASE branch = "validated" -> AI_CALL_DELAY
           [] branch \in { "closed", "stale", "error" } -> 60
           [] branch = "exit_check" -> 10
           [] OTHER -> 30

\* "while not self.stop_event.is_set()" / "while not self._stop_event.is_set()"
LoopContinues(stop_set) == ~stop_set

\* A thread's loop: where it is (top of the loop, paused, done), whether its
\* stop event is set, the branch, kind and seconds of its pause, the seconds
\* of a pause that went by with the stop event set and the iterations begun.
PollInit ==
    poll = [ l \in PollLoops |->
               [ pc |-> "top", stop_set |-> FALSE, branch |-> "None", kind |-> "None",
                 seconds |-> 0, ignored |-> 0, iterations |-> 0 ] ]

\* The loop condition at the top of an iteration, and an iteration up to its pause.
PollIterate(l, branch) ==
    /\ poll[l].pc = "top"
    /\ IF LoopContinues(poll[l].stop_set)
       THEN poll' = [ poll EXCEPT ![l].pc = "paused", ![l].branch = branch,
                                  ![l].kind = PauseKind(l, branch),
                                  ![l].seconds = PauseSeconds(l, branch),
                                  ![l].iterations = @ + 1 ]
       ELSE poll' = [ poll EXCEPT ![l].pc = "done", ![l].kind = "None",
                                  ![l].seconds = 0 ]

\* The pause ends: time.sleep after its seconds, wait after its seconds or as
\* soon as the event is set. After the sleep of validate_signal_with_ai the
\* iteration goes on to execute_trade and "self._stop_event.wait(30)".
PollWake(l) ==
    /\ poll[l].pc = "paused"
    /\ IF poll[l].branch = "validated"
       THEN poll' = [ poll EXCEPT ![l].branch = "signal",
                                  ![l].kind = PauseKind(l, "signal"),
                                  ![l].seconds = PauseSeconds(l, "signal") ]
       ELSE poll' = [ poll EXCEPT ![l].pc = "top", ![l].kind = "None",
                                  ![l].seconds = 0 ]

\* stop() of the loop's owner sets the event while the loop is at its top,
\* or in a pause of which `left` seconds remain: a sleep goes on for them.
PollStop(l, left) ==
    /\ ~poll[l].stop_set
    /\ poll[l].pc # "done"
    /\ poll' = [ poll EXCEPT ![l].stop_set = TRUE,
                             ![l].ignored = IF poll[l].pc = "paused"
                                               /\ poll[l].kind = "sleep"
                                            THEN left ELSE 0 ]

\* --------------------------- start() and stop() of the two engine launchers
\* The module rijin_live_runner (globals thread, _stop_event, _engine) and
\* the class RijinIntegratedRunner (self.thread, self.stop_event).
Launchers == { "rijin_live_runner", "rijin_runner" }

\* The requests of the dashboard that call start() and stop(), each in its
\* own thread of the web server.
Callers == { 1, 2 }

\* Threads a launcher creates in the behaviours explored.
MaxThreads == 2

\* rijin_live_runner.start binds a new Event to _stop_event;
\* RijinIntegratedRunner.start clears the one Event of __init__.
NewEventPerStart(l) == l = "rijin_live_runner"

\* The globals of a launcher: thread (0: None), the state of every Thread
\* object (none, new, started, running, done), the event each thread polls
\* (0: not bound yet), the event _stop_event names, the events that are set,
\* the thread whose engine _engine names (0: None), and where each caller is
\* in its call.
NotLaunched ==
    [ thread |-> 0,
      state |-> [ id \in 1..MaxThreads |-> "none" ],
      polls |-> [ id \in 1..MaxThreads |-> 0 ],
      event |-> 1, set |-> {}, engine |-> 0, created |-> 0,
      pc |-> [ c \in Callers |-> "idle" ],
      returned |-> [ c \in Callers |-> "None" ] ]

LaunchInit == launch = [ l \in Launchers |-> NotLaunched ]

\* Thread.is_alive(): from start() until the thread's function has returned.
IsAlive(state) == state \in { "started", "running" }

\* The live engine threads of a launcher.
LiveThreads(l) == { id \in 1..MaxThreads : IsAlive(launch[l].state[id]) }

\* start(), "if thread and thread.is_alive(): return False"
StartCheck(l, c) ==
    /\ launch[l].pc[c] = "idle"
    /\ launch[l].created < MaxThreads
    /\ IF launch[l].thread # 0 /\ IsAlive(launch[l].state[launch[l].thread])
       THEN launch' = [ launch EXCEPT ![l].returned[c] = "False" ]
       ELSE launch' = [ launch EXCEPT ![l].pc[c] = "start_checked",
                                      ![l].returned[c] = "None" ]

\* start(), "_stop_event = threading.Event()" / "self.stop_event.clear()"
StartResetEvent(l, c) ==
    /\ launch[l].pc[c] = "start_checked"
    /\ IF NewEventPerStart(l)
       THEN launch' = [ launch EXCEPT ![l].pc[c] = "start_reset",
                                      ![l].event = @ + 1 ]
       ELSE launch' = [ launch EXCEPT ![l].pc[c] = "start_reset",
                                      ![l].set = @ \ { launch[l].event } ]

\* start(), "thread = threading.Thread(target=..., daemon=True)"
StartCreateThread(l, c) ==
    /\ launch[l].pc[c] = "start_reset"
    /\ launch[l].created < MaxThreads
    /\ LET id == launch[l].created + 1
       IN launch' = [ launch EXCEPT ![l].pc[c] = "start_created",
                                    ![l].created = id,
                                    ![l].thread = id,
                                    ![l].state[id] = "new",
                                    ![l].polls[id] =
                                        IF NewEventPerStart(l) THEN 0 ELSE launch[l].event ]

\* start(), "thread.start()" on the Thread the global names at that moment:
\* a Thread that was started already raises RuntimeError.
StartThread(l, c) ==
    /\ launch[l].pc[c] = "start_created"
    /\ LET id == launch[l].thread
       IN IF launch[l].state[id] = "new"
          THEN launch' = [ launch EXCEPT ![l].pc[c] = "idle",
                                         ![l].state[id] = "started",
                                         ![l].returned[c] = "True" ]
          ELSE launch' = [ launch EXCEPT ![l].pc[c] = "idle",
                                         ![l].returned[c] = "RuntimeError" ]

\* stop(), "_stop_event.set()" / "self.stop_event.set()"; the join of
\* RijinIntegratedRunner.stop waits at most 2 seconds and changes nothing.
StopSetEvent(l, c) ==
    /\ launch[l].pc[c] = "idle"
    /\ launch' = [ launch EXCEPT ![l].set = @ \cup { launch[l].event },
                                 ![l].pc[c] = IF NewEventPerStart(l)
                                              THEN "stop_signalled" ELSE "idle",
                                 ![l].returned[c] = "None" ]

\* rijin_live_runner.stop(), "if _engine: _engine.stop()"
StopEngine(l, c) ==
    /\ launch[l].pc[c] = "stop_signalled"
    /\ launch' = [ launch EXCEPT
                     ![l].pc[c] = "idle",
                     ![l].set = IF launch[l].engine # 0
                                THEN @ \cup { launch[l].polls[launch[l].engine] }
                                ELSE @ ]

\* The thread begins: _run_engine builds the engine on the Event that
\* _stop_event names now and binds it to _engine; run_loop sets up its client.
ThreadBegin(l, id) ==
    /\ launch[l].state[id] = "started"
    /\ IF NewEventPerStart(l)
       THEN launch' = [ launch EXCEPT ![l].state[id] = "running",
                                      ![l].polls[id] = launch[l].event,
                                      ![l].engine = id ]
       ELSE launch' = [ launch EXCEPT ![l].state[id] = "running" ]

\* The thread's loop finds its event set and returns.
ThreadObservesStop(l, id) ==
    /\ launch[l].state[id] = "running"
    /\ launch[l].polls[id] \in launch[l].set
    /\ launch' = [ launch EXCEPT ![l].state[id] = "done" ]

\* ------------------------------------------ RijinLiveEngine (rijin_live.py)
\* USE_AI_FILTER of rijin_live.py
USE_AI_FILTER == TRUE

\* "max_retries = 3" of evaluate_trade_quality
MaxRetries == 3

\* What one request to the filter's service ends in: a well-formed answer
\* deciding ACCEPT, RESTRICT or something else, an answer that cannot be
\* parsed, status 429, another status, or an exception of the request.
AiResponses ==
    { "ACCEPT", "RESTRICT", "OTHER", "MALFORMED", "429", "ERROR_STATUS", "EXCEPTION" }

\* What evaluate_trade_quality returns: the decision of the answer or "None",
\* with the number of requests made and what ended the call.
AiResult(decision, requests, cause) ==
    [ decision |-> decision, requests |-> requests, cause |-> cause ]

\* The retry loop of evaluate_trade_quality from the given attempt on;
\* responses[i] is what the i-th request ends in.
RECURSIVE AiAttempt(_, _)
AiAttempt(attempt, responses) ==
    IF attempt > MaxRetries THEN AiResult("None", MaxRetries, "retries exhausted")
    ELSE LET r == responses[attempt]
         IN CASE r \in { "ACCEPT", "RESTRICT" } -> AiResult(r, attempt, "answer")
              [] r = "OTHER" -> AiResult("ACCEPT", attempt, "answer")
              [] r = "429" -> AiAttempt(attempt + 1, responses)
              [] r = "ERROR_STATUS" -> AiResult("None", attempt, "status")
              [] OTHER -> IF attempt < MaxRetries
                          THEN AiAttempt(attempt + 1, responses)
                          ELSE AiResult("None", attempt, "request error")

\* GeminiHelper.evaluate_trade_quality(market_context, signal_data)
EvaluateTradeQuality(enabled, key_set, responses) ==
    IF ~enabled THEN AiResult("None", 0, "disabled")
    ELSE IF ~key_set THEN AiResult("None", 0, "no key")
    ELSE AiAttempt(1, responses)

\* "if result is None: self.ai_failures += 1"
CountsFailureMutNever(result) == FALSE
CountsFailure(result) == result.decision = "None"

\* What the model remembers of the last call that touched the statistics.
AiCall(op, result, decision) ==
    [ op |-> op, result |-> result.decision, requests |-> result.requests,
      cause |-> result.cause, decision |-> decision,
      total_before |-> ai.ai_total_calls, failures_before |-> ai.ai_failures ]

\* RijinLiveEngine.__init__: the statistics of the validator
AiInit ==
    ai = [ ai_total_calls |-> 0, ai_accepts |-> 0, ai_restricts |-> 0,
           ai_failures |-> 0,
           call |-> [ op |-> "init", result |-> "None", requests |-> 0,
                      cause |-> "None", decision |-> "None",
                      total_before |-> 0, failures_before |-> 0 ] ]

\* RijinLiveEngine.validate_signal_with_ai(market_context, signal), given
\* what the filter returns.
ValidateSignalWithAi(result) ==
    IF ~USE_AI_FILTER
    THEN ai' = [ ai EXCEPT !.call = AiCall("validate_signal_with_ai",
                                           AiResult("skipped", 0, "filter off"), "ACCEPT") ]
    ELSE IF CountsFailure(result)
    THEN ai' = [ ai EXCEPT !.ai_total_calls = @ + 1, !.ai_failures = @ + 1,
                           !.call = AiCall("validate_signal_with_ai", result, "ACCEPT") ]
    ELSE IF result.decision = "ACCEPT"
    THEN ai' = [ ai EXCEPT !.ai_total_calls = @ + 1, !.ai_accepts = @ + 1,
                           !.call = AiCall("validate_signal_with_ai", result,
                                           result.decision) ]
    ELSE ai' = [ ai EXCEPT !.ai_total_calls = @ + 1, !.ai_restricts = @ + 1,
                           !.call = AiCall("validate_signal_with_ai", result,
                                           result.decision) ]

\* RijinLiveEngine.reset_daily_state: the statistics of the validator
AiResetDailyState ==
    ai' = [ ai EXCEPT !.ai_total_calls = 0, !.ai_accepts = 0, !.ai_restricts = 0,
                      !.ai_failures = 0,
                      !.call = AiCall("reset_daily_state", AiResult("None", 0, "None"),
                                      "None") ]

\* "if not (dtime(9, 15) <= current_time <= dtime(15, 30))"
EngineSessionClose == 930

\* "(now - self.last_check_time).total_seconds() >= 300", in minutes
SignalIntervalMinutes == 5

\* What the model remembers of an iteration of RijinLiveEngine.run: its time,
\* the branch it took, whether a trade was active when it began, the level
\* the current price reached, and whether generate_signal was called, a
\* signal went to the validator and a trade was opened.
EngineCall(t, branch, reached, generated, evaluated, admitted) ==
    [ op |-> "run", current_time |-> t, branch |-> branch,
      active_before |-> engine.active_trade # << >>, reached |-> reached,
      generated |-> generated, evaluated |-> evaluated, admitted |-> admitted ]

\* RijinLiveEngine.__init__
EngineInit ==
    /\ AiInit
    /\ PollInit
    /\ LaunchInit
    /\ engine = [ active_trade |-> << >>, last_check_time |-> << >>, today |-> << >>,
               daily_trades |-> 0,
               call |-> [ op |-> "init", current_time |-> 0, branch |-> "None",
                          active_before |-> FALSE, reached |-> "NONE",
                          generated |-> FALSE, evaluated |-> FALSE,
                          admitted |-> FALSE ] ]

\* What one iteration of the engine gets: whether the candles are enough and
\* fresh and the indicators computed, the level the current price reaches,
\* whether the strategy gives a signal and what the validator decides.
EngineInputs ==
    [ data_ok : BOOLEAN, reached : { "NONE", "SL", "TARGET" }, signal : BOOLEAN,
      ai_decision : { "ACCEPT", "RESTRICT" } ]

\* "if self.active_trade: ... self.check_active_trade_exit(current_price);
\* self._stop_event.wait(10); continue"
OnlyChecksExit(active_trade) == active_trade # << >>

\* RijinLiveEngine.reset_daily_state: the daily counters (the statistics of the
\* validator and the day's result are not followed).
ResetDailyState(e, t) ==
    [ e EXCEPT !.today = << DateOf(t) >>, !.daily_trades = 0 ]

\* One iteration of the while loop of RijinLiveEngine.run at time t.
EngineRun(t, inp) ==
    LET e == IF engine.today # << DateOf(t) >> THEN ResetDailyState(engine, t)
             ELSE engine
    IN IF ~(SessionOpen <= Tod(t) /\ Tod(t) <= EngineSessionClose)
       THEN engine' = [ e EXCEPT !.call = EngineCall(t, "closed", inp.reached,
                                                     FALSE, FALSE, FALSE) ]
       ELSE IF ~inp.data_ok
       THEN engine' = [ e EXCEPT !.call = EngineCall(t, "no_data", inp.reached,
                                                     FALSE, FALSE, FALSE) ]
       ELSE IF OnlyChecksExit(e.active_trade)
       THEN engine' = [ e EXCEPT
                          !.active_trade = IF inp.reached # "NONE" THEN << >> ELSE @,
                          !.call = EngineCall(t, "exit_check", inp.reached,
                                              FALSE, FALSE, FALSE) ]
       ELSE IF \/ e.last_check_time = << >>
               \/ t - e.last_check_time[1] >= SignalIntervalMinutes
       THEN IF inp.signal /\ inp.ai_decision = "ACCEPT"
            THEN engine' = [ e EXCEPT
                               !.active_trade = << [ mode |-> "MODE_F",
                                                     direction |-> "BUY",
                                                     entry_time |-> t ] >>,
                               !.daily_trades = @ + 1,
                               !.last_check_time = << t >>,
                               !.call = EngineCall(t, "signal", inp.reached,
                                                   TRUE, TRUE, TRUE) ]
            ELSE engine' = [ e EXCEPT
                               !.last_check_time = << t >>,
                               !.call = EngineCall(t, "signal", inp.reached,
                                                   TRUE, inp.signal, FALSE) ]
       ELSE engine' = [ e EXCEPT !.call = EngineCall(t, "wait", inp.reached,
                                                     FALSE, FALSE, FALSE) ]

\* The state of the day-type engine after its first classification as `label`
\* (update_day_type called once on a fresh engine at time 0).
ClassifiedAs(label) ==
    /\ current_day_type = label
    /\ last_check_time = << 0 >>
    /\ pending_downgrade = "None"
    /\ pending_downgrade_since = << >>
    /\ day_locked = FALSE
    /\ now = 0
    /\ call = [ op |-> "update_day_type", new_type |-> label, current_time |-> 0,
                current_before |-> "UNKNOWN", pending_before |-> "None",
                updated |-> TRUE, message |-> "Initial classification",
                raised |-> "None" ]

\* One bar of the day loop: detect_impulse on the bars so far.
ImpulseStep ==
    \E bars \in ImpulseBars :
        /\ DetectImpulse(bars, 10, now)
        /\ UNCHANGED << dayVars, breakerVars, verdict, sessionVars >>

\* ImpulseDetectionEngine.reset_for_new_day is called at the start of a day.
ImpulseNewDay ==
    /\ ImpulseReset
    /\ UNCHANGED << dayVars, breakerVars, verdict, sessionVars >>

\* A candidate signal is put through _apply_rijin_gates.
GateEvaluation ==
    \E in \in Candidates : ApplyRijinGates(in) /\ UNCHANGED sessionVars

\* One scheduled day-type check: the classifier's label is applied at the
\* caller's current time.
DayTypeCheck ==
    \E new_type \in DayType, d \in Deltas :
        /\ now + d <= MaxTime
        /\ UpdateDayType(new_type, now + d)
        /\ UNCHANGED << gateVars, sessionVars >>

\* The day-type engine is reset for a new day.
DayTypeNewDay == ResetForNewDay /\ UNCHANGED << gateVars, sessionVars >>

vars == << dayVars, gateVars, sessionVars >>

\* The regime state machine on its own.
Init == DayInit /\ ImpulseInit /\ GatesInit /\ TradeInit /\ StopInit /\ BrakeInit
        /\ RunnerInit /\ EngineInit /\ ImpulseCallInit /\ CheckCallInit /\ ClassifyCallInit /\ wall_clock = 0

Next ==
    \/ DayTypeCheck
    \/ DayTypeNewDay

Spec == Init /\ [][Next]_vars

\* The admission gates of the backtest engine, for a day classified once.
InitGates ==
    /\ \E label \in DayType : ClassifiedAs(label)
    /\ ImpulseInit
    /\ GatesInit
    /\ TradeInit
    /\ StopInit
    /\ BrakeInit
    /\ RunnerInit
    /\ EngineInit
    /\ ImpulseCallInit /\ CheckCallInit /\ ClassifyCallInit
    /\ wall_clock = 0

NextGates ==
    \/ ImpulseStep
    \/ ImpulseNewDay
    \/ GateEvaluation

SpecGates == InitGates /\ [][NextGates]_vars

\* The impulse engine on its own: detect_impulse is called on bars of every
\* kind, some of them unreadable, with one of two volatilities, and the
\* engine is reset for a new day.
ImpulseCallBars ==
    ImpulseBars \cup
    { [ bars EXCEPT !.malformed = m ] :
        bars \in { b \in ImpulseBars : b.close_4 = 100 /\ b.prior_high = 110
                                        /\ b.prior_low = 95 },
        m \in Malformations }

ImpulseAtrs == { 10, 12 }

ImpulseCall ==
    \E bars \in ImpulseCallBars, atr \in ImpulseAtrs, d \in ClockSteps :
        /\ wall_clock + d <= MaxClock
        /\ wall_clock' = wall_clock + d
        /\ DetectImpulseCall(bars, atr, wall_clock + d)
        /\ UNCHANGED << dayVars, breakerVars, verdict, tradeVars, stopVars, brakeVars,
                        runnerVars, engineVars, check_call, classify_call >>

ImpulseExpansion ==
    \E price \in ExpansionPrices :
        /\ GetExpansionCall(price)
        /\ UNCHANGED << dayVars, breakerVars, verdict, tradeVars, stopVars, liveVars,
                        check_call, classify_call >>

NextImpulse ==
    \/ ImpulseCall
    \/ ImpulseNewDay
    \/ ImpulseExpansion

SpecImpulse == Init /\ [][NextImpulse]_vars

\* The consecutive-loss breaker in the signal loop of one backtest day.
BacktestSignal ==
    \E in \in BacktestSignals, d \in CandleSteps :
        /\ candle_time + d <= MaxCandleTime
        /\ ProcessSignal([ in EXCEPT !.tod = candle_time + d ])
        /\ UNCHANGED << liveVars, callVars >>

\* The bars of the candles of that day: one pair of candles breaks the prior
\* swing high of 110 and starts a BUY impulse, against 120 it does not.
BacktestBars ==
    { bars \in ImpulseBars :
        /\ bars.n = 10
        /\ bars.candle_1 = Candle(100, 108, 100, 107)
        /\ bars.candle_2 = Candle(107, 116, 106, 115)
        /\ bars.close_4 = 100
        /\ bars.prior_low = 95 }

\* detect_impulse on a candle of the backtest loop.
BacktestImpulse ==
    \E bars \in BacktestBars :
        /\ DetectImpulse(bars, 10, candle_time)
        /\ UNCHANGED << dayVars, breakerVars, verdict, sessionVars >>

\* The day of the backtest loop was classified as a day that allows MODE_F or
\* as a day that does not.
InitBreaker ==
    /\ \E label \in { "NORMAL_TREND", "RANGE_CHOPPY" } : ClassifiedAs(label)
    /\ ImpulseInit
    /\ GatesInit
    /\ TradeInit
    /\ StopInit
    /\ BrakeInit
    /\ RunnerInit
    /\ EngineInit
    /\ ImpulseCallInit /\ CheckCallInit /\ ClassifyCallInit
    /\ wall_clock = 0

NextBreaker ==
    \/ BacktestImpulse
    \/ BacktestSignal

SpecBreaker == InitBreaker /\ [][NextBreaker]_vars

\* The correlation brake as the live runner drives it: time passes, a trade
\* of an instrument closes at its stop, a signal of an instrument reaches the
\* brake check of rijin_execute.
BrakeTick ==
    \E d \in ClockSteps :
        /\ wall_clock + d <= MaxClock
        /\ wall_clock' = wall_clock + d
        /\ UNCHANGED << dayVars, gateVars, tradeVars, callVars, stopVars, brakeVars, runnerVars,
                        engineVars >>

BrakeStopLoss ==
    \E instrument \in Instruments, direction \in { "BUY", "SELL" },
       day_type \in { "CLEAN_TREND", "NORMAL_TREND" } :
        /\ Len(sl_history["NIFTY"]) + Len(sl_history["SENSEX"]) < MaxSlRegistered
        /\ BrakeRegisterSl(instrument, direction, day_type, wall_clock)
        /\ UNCHANGED << dayVars, gateVars, tradeVars, callVars, stopVars, wall_clock,
                        runnerVars, engineVars >>

BrakeCheck ==
    \E instrument \in Instruments :
        /\ CheckAndBlock(GetOtherInstrument(instrument), instrument, wall_clock,
                         AreIndicesCorrelated)
        /\ UNCHANGED << dayVars, gateVars, tradeVars, callVars, stopVars, wall_clock,
                        runnerVars, engineVars >>

NextBrake ==
    \/ BrakeTick
    \/ BrakeStopLoss
    \/ BrakeCheck

SpecBrake == Init /\ [][NextBrake]_vars

\* The session stop manager under the calls its users make: the daily reset,
\* a blocked and an executed signal of rijin_execute, a stop-loss exit, the
\* stop check of the polling loop, and a manual stop.
otherThanStop == << dayVars, gateVars, tradeVars, callVars, liveVars >>

StopNewDay == StopResetForNewDay /\ UNCHANGED otherThanStop

StopBlock ==
    /\ consecutive_blocks < MaxBlocks
    /\ RegisterBlock
    /\ UNCHANGED otherThanStop

StopUnblock == ResetConsecutiveBlocks /\ UNCHANGED otherThanStop

StopSl ==
    \E tod \in { SlAfterTime - 5, SlAfterTime, SlAfterTime + 5 } :
        /\ sl_count_after_cutoff < MaxSlCount
        /\ StopRegisterSl(tod)
        /\ UNCHANGED otherThanStop

StopCheck ==
    \E day_type \in DayType :
        /\ CheckStopConditions(day_type)
        /\ UNCHANGED otherThanStop

StopForce == ForceStop("Manual stop") /\ UNCHANGED otherThanStop

NextStop ==
    \/ StopNewDay
    \/ StopBlock
    \/ StopUnblock
    \/ StopSl
    \/ StopCheck
    \/ StopForce

SpecStop == Init /\ [][NextStop]_vars

\* The live runner: the polling loop from LiveStart on, an operator that may
\* force the stop between two iterations, and the passage to the next day.
InitLive ==
    /\ DayInit
    /\ ImpulseInit
    /\ GatesInit
    /\ TradeInit
    /\ StopInit
    /\ BrakeInit
    /\ RunnerInit
    /\ EngineInit
    /\ ImpulseCallInit /\ CheckCallInit /\ ClassifyCallInit
    /\ wall_clock = LiveStart

\* The loop wakes up d minutes after its last iteration and runs one more.
LiveIteration ==
    \E d \in LiveSteps, inp_nifty \in LiveInputs, inp_sensex \in LiveInputs :
        /\ Tod(wall_clock + d) <= MaxLiveTod
        /\ wall_clock' = wall_clock + d
        /\ \E analysis \in AnalysesAt(wall_clock + d) :
              RunLoopIteration(wall_clock + d, analysis.fetched, analysis.new_type,
                               inp_nifty, inp_sensex)
        /\ UNCHANGED << gateVars, tradeVars, callVars, engineVars >>

\* Nothing is fetched for the rest of the day and after the cutoff; the next
\* iteration the model follows is the one at LiveStart of the next day.
LiveNextDay ==
    \E inp_nifty \in LiveInputs, inp_sensex \in LiveInputs :
        LET t == (DateOf(wall_clock) + 1) * MinutesPerDay + LiveStart
        IN /\ DateOf(wall_clock) < MaxDay
           /\ wall_clock' = t
           /\ RunLoopIteration(t, FALSE, "UNKNOWN", inp_nifty, inp_sensex)
           /\ UNCHANGED << gateVars, tradeVars, callVars, engineVars >>

\* SystemStopManager.force_stop is called between two iterations.
LiveForceStop ==
    /\ ~stopped
    /\ ForceStop("Manual stop")
    /\ UNCHANGED << dayVars, gateVars, tradeVars, callVars, liveVars >>

NextLive ==
    \/ LiveIteration
    \/ LiveNextDay
    \/ LiveForceStop

SpecLive == InitLive /\ [][NextLive]_vars

\* The runner with trades: besides the polling loop and the forced stop, the
\* runner's execute_signal is called for an instrument without a trade, as
\* process_instrument calls it on an admitted signal, and the loop is followed
\* past the trading cutoff.
ManageExecuteSignal ==
    \E instrument \in Instruments :
        LET mode == IF instrument = "NIFTY" THEN "MODE_F" ELSE "MODE_S"
        IN /\ ~stopped
           /\ Tod(wall_clock) <= TradingCutoff
           /\ active_trades[instrument] = << >>
           /\ active_trades' =
                 ExecuteSignal(RunnerState, instrument, mode, "BUY", wall_clock).active
        /\ UNCHANGED << dayVars, gateVars, tradeVars, callVars, stopVars, wall_clock, brakeVars,
                        runner_day_type, last_processed, last_reset_date,
                        impulse_fired, total_impulse_count, loop, engineVars >>

\* An iteration of the loop before the trading cutoff.
ManageIteration ==
    \E d \in ManageSteps, inp_nifty \in LiveInputs, inp_sensex \in LiveInputs :
        /\ Tod(wall_clock + d) <= MaxLiveTod
        /\ wall_clock' = wall_clock + d
        /\ \E analysis \in AnalysesAt(wall_clock + d) :
              RunLoopIteration(wall_clock + d, analysis.fetched, analysis.new_type,
                               inp_nifty, inp_sensex)
        /\ UNCHANGED << gateVars, tradeVars, callVars, engineVars >>

\* An iteration of the loop after the trading cutoff of the day.
ManageLateIteration ==
    \E d \in LateSteps, inp_nifty \in LiveInputs, inp_sensex \in LiveInputs :
        LET t == DateOf(wall_clock) * MinutesPerDay + TradingCutoff + d
        IN /\ wall_clock <= t
           /\ wall_clock' = t
           /\ RunLoopIteration(t, FALSE, "UNKNOWN", inp_nifty, inp_sensex)
           /\ UNCHANGED << gateVars, tradeVars, callVars, engineVars >>

\* process_instrument called for one instrument at the present time.
ProcessInstrumentCall(instrument, inp) ==
    LET rs == ProcessInstrument(RunnerState, instrument, inp, wall_clock,
                                runner_day_type)
    IN /\ WriteRunnerState(rs)
       /\ stop_call' = rs.stop_call
       /\ loop' = [ Loop(wall_clock, "process", FALSE, "None", rs.evals,
                         [ i \in Instruments |->
                             IF i = instrument THEN inp.exit ELSE "NONE" ])
                    EXCEPT !.op = "process_instrument", !.name = instrument ]
       /\ UNCHANGED << stopped, stop_reason, runner_day_type, last_reset_date >>

NextManage ==
    \/ ManageIteration
    \/ LiveForceStop
    \/ ManageExecuteSignal
    \/ ManageLateIteration

SpecManage == InitLive /\ [][NextManage]_vars

\* The two live loops at the level of their entry decisions: time passes, the
\* runner classifies the day, process_instrument runs for an instrument, and
\* the single-instrument engine of rijin_live.py runs an iteration. The two
\* loops are two programs: a behaviour follows the one that made the first
\* call.
RunnerNotStarted == loop.op = "init" /\ call.op = "init"

EngineNotStarted == engine.call.op = "init"

EntryTick ==
    \E d \in EntrySteps :
        /\ Tod(wall_clock + d) <= MaxLiveTod
        /\ wall_clock' = wall_clock + d
        /\ UNCHANGED << dayVars, gateVars, tradeVars, callVars, stopVars, brakeVars, runnerVars,
                        engineVars >>

EntryAnalysis ==
    \E new_type \in EntryLabels :
        /\ EngineNotStarted
        /\ current_day_type = "UNKNOWN"
        /\ RunDayTypeAnalysis(wall_clock, TRUE, new_type)
        /\ UNCHANGED << gateVars, tradeVars, callVars, stopVars, wall_clock, brakeVars,
                        active_trades, last_processed, last_reset_date,
                        impulse_fired, total_impulse_count, loop, engineVars >>

EntryProcess ==
    \E instrument \in Instruments, inp \in LiveInputs :
        /\ EngineNotStarted
        /\ (inp.exit = "SL HIT" /\ active_trades[instrument] # << >>)
              => Len(sl_history["NIFTY"]) + Len(sl_history["SENSEX"]) < MaxSlRegistered
        /\ ProcessInstrumentCall(instrument, inp)
        /\ UNCHANGED << dayVars, gateVars, tradeVars, callVars, wall_clock, engineVars >>

EntryEngine ==
    \E inp \in EngineInputs :
        /\ RunnerNotStarted
        /\ EngineRun(wall_clock, inp)
        /\ UNCHANGED << dayVars, gateVars, tradeVars, callVars, stopVars, wall_clock, brakeVars,
                        runnerVars, ai, threadVars >>

NextEntries ==
    \/ EntryTick
    \/ EntryAnalysis
    \/ EntryProcess
    \/ EntryEngine

SpecEntries == InitLive /\ [][NextEntries]_vars

\* The gates and checks on their own: each is called directly, with bars and
\* indicators that may be unavailable, on a day classified once, before and
\* after an impulse, a stop-loss registered with the correlation brake and a
\* forced session stop.
CheckLabels == { "CLEAN_TREND", "RANGE_CHOPPY", "UNKNOWN" }

InitChecks ==
    /\ \E label \in CheckLabels : ClassifiedAs(label)
    /\ ImpulseInit
    /\ GatesInit
    /\ TradeInit
    /\ StopInit
    /\ BrakeInit
    /\ RunnerInit
    /\ EngineInit
    /\ ImpulseCallInit /\ CheckCallInit /\ ClassifyCallInit
    /\ wall_clock = 0

\* The bars of the impulse the checks measure from, and bars without one.
CheckImpulseBars ==
    { bars \in ImpulseBars :
        /\ bars.n = 10 /\ bars.close_4 = 100 /\ bars.prior_high = 110
        /\ bars.prior_low = 95 /\ bars.candle_1.high # 104 }

ChecksImpulse ==
    \E bars \in CheckImpulseBars :
        /\ DetectImpulse(bars, 10, now)
        /\ UNCHANGED << dayVars, breakerVars, verdict, sessionVars >>

ChecksStopLoss ==
    /\ Len(sl_history["NIFTY"]) + Len(sl_history["SENSEX"]) < MaxSlRegistered
    /\ BrakeRegisterSl("NIFTY", "BUY", "CLEAN_TREND", wall_clock)
    /\ UNCHANGED << dayVars, gateVars, tradeVars, callVars, stopVars, wall_clock,
                    runnerVars, engineVars >>

ChecksCall ==
    \E name \in CheckNames :
        \E in \in CheckInputs(name) :
            /\ CheckCall(name, in)
            /\ UNCHANGED << dayVars, breakerVars, verdict, tradeVars, impulse_call,
                            classify_call, stopVars, liveVars >>

NextChecks ==
    \/ ChecksImpulse
    \/ ChecksStopLoss
    \/ StopForce
    \/ ChecksCall

SpecChecks == InitChecks /\ [][NextChecks]_vars

\* The classifier on its own: classify_day is called on a day classified
\* once or reset.
InitClassify ==
    /\ \E label \in DayType : ClassifiedAs(label)
    /\ ImpulseInit
    /\ GatesInit
    /\ TradeInit
    /\ StopInit
    /\ BrakeInit
    /\ RunnerInit
    /\ EngineInit
    /\ ImpulseCallInit /\ CheckCallInit /\ ClassifyCallInit
    /\ wall_clock = 0

ClassifyCall ==
    \E in \in ClassifyInputs :
        /\ ClassifyDayCall(in)
        /\ UNCHANGED << dayVars, gateVars, tradeVars, impulse_call, check_call, stopVars,
                        liveVars >>

NextClassify ==
    \/ ClassifyCall
    \/ DayTypeNewDay

SpecClassify == InitClassify /\ [][NextClassify]_vars

\* The validator of the live engine on its own: signals are validated while
\* the filter is enabled or not, has its key or not, and its requests end in
\* every way; the statistics are reset for a new day.
MaxAiCalls == 3

AiValidate ==
    \E enabled \in BOOLEAN, key_set \in BOOLEAN, responses \in [ 1..MaxRetries -> AiResponses ] :
        /\ ai.ai_total_calls < MaxAiCalls
        /\ ValidateSignalWithAi(EvaluateTradeQuality(enabled, key_set, responses))
        /\ UNCHANGED << dayVars, gateVars, tradeVars, callVars, stopVars, wall_clock,
                        brakeVars, runnerVars, engine, threadVars >>

AiNewDay ==
    /\ AiResetDailyState
    /\ UNCHANGED << dayVars, gateVars, tradeVars, callVars, stopVars, wall_clock,
                    brakeVars, runnerVars, engine, threadVars >>

NextAi ==
    \/ AiValidate
    \/ AiNewDay

SpecAi == InitLive /\ [][NextAi]_vars

\* The two polling loops and their stop events on their own.
MaxIterations == 2

ShutdownIterate ==
    \E l \in PollLoops :
        \E branch \in PollBranches(l) :
            /\ poll[l].iterations < MaxIterations \/ poll[l].stop_set
            /\ PollIterate(l, branch)
            /\ UNCHANGED << dayVars, gateVars, tradeVars, callVars, stopVars, wall_clock,
                            brakeVars, runnerVars, engine, ai, launch >>

ShutdownWake ==
    \E l \in PollLoops :
        /\ PollWake(l)
        /\ UNCHANGED << dayVars, gateVars, tradeVars, callVars, stopVars, wall_clock,
                        brakeVars, runnerVars, engine, ai, launch >>

ShutdownStop ==
    \E l \in PollLoops :
        \E left \in { 1, poll[l].seconds } :
            /\ PollStop(l, left)
            /\ UNCHANGED << dayVars, gateVars, tradeVars, callVars, stopVars, wall_clock,
                            brakeVars, runnerVars, engine, ai, launch >>

NextShutdown ==
    \/ ShutdownIterate
    \/ ShutdownWake
    \/ ShutdownStop

SpecShutdown == InitLive /\ [][NextShutdown]_vars

\* The runner's cached label: the polling loop with its daily reset and its
\* day-type analyses, and process_instrument called for an instrument at the
\* present time, as the loop calls it once the stop check lets it through.
CacheInputs ==
    { LiveInput(TRUE, "NONE", FALSE, TRUE), LiveInput(TRUE, "TARGET HIT", FALSE, FALSE) }

CacheProcess ==
    \E instrument \in Instruments, inp \in CacheInputs :
        /\ loop.op # "init"
        /\ ProcessInstrumentCall(instrument, inp)
        /\ UNCHANGED << dayVars, gateVars, tradeVars, callVars, wall_clock, engineVars >>

\* An iteration of the loop some minutes after the last one; the stop check
\* ends it before it reads the instruments' candles.
NoCandles == LiveInput(FALSE, "NONE", FALSE, FALSE)

CacheSteps == { 25 }

CacheIteration ==
    \E d \in CacheSteps :
        \E analysis \in AnalysesAt(wall_clock + d) :
            /\ Tod(wall_clock + d) <= MaxLiveTod
            /\ wall_clock' = wall_clock + d
            /\ RunLoopIteration(wall_clock + d, analysis.fetched, analysis.new_type,
                                NoCandles, NoCandles)
            /\ UNCHANGED << gateVars, tradeVars, callVars, engineVars >>

\* The first iteration of the next day, at LiveStart, resets the runner.
CacheNextDay ==
    LET t == (DateOf(wall_clock) + 1) * MinutesPerDay + LiveStart
    IN /\ DateOf(wall_clock) < MaxDay
       /\ wall_clock' = t
       /\ RunLoopIteration(t, FALSE, "UNKNOWN", NoCandles, NoCandles)
       /\ UNCHANGED << gateVars, tradeVars, callVars, engineVars >>

NextCache ==
    \/ CacheIteration
    \/ CacheNextDay
    \/ CacheProcess

SpecCache == InitLive /\ [][NextCache]_vars

\* One day of the backtest, _process_day: first the loop over the scheduled
\* day-type checks, then the loop over the bars. A day's candles begin at
\* 9:15, so the checks before 12:00 find fewer than 30 candles and are
\* skipped, and the bar loop begins with the candle of index 30, at 11:45.
BacktestCheckTimes == { c \in DAY_TYPE_CHECK_TIMES : c >= 720 }

\* The bars of the day that carry a signal in the behaviours explored.
DayLoopBarTimes == { 705, 760, 880 }

\* The check time the loop "for check_time in day_type_checks" comes to next.
NextCheckTime(t) ==
    CHOOSE c \in BacktestCheckTimes :
        c > t /\ \A c2 \in BacktestCheckTimes : c2 > t => c <= c2

\* The loop over the checks has ended.
ChecksDone == \A c \in BacktestCheckTimes : c <= now

\* One scheduled check: _classify_day_at_time on the candles up to the check
\* time, then update_day_type; an exception ends _process_day.
DayLoopCheck ==
    \E new_type \in DayType :
        /\ ~ChecksDone
        /\ call.raised = "None"
        /\ UpdateDayType(new_type, NextCheckTime(now))
        /\ UNCHANGED << gateVars, sessionVars >>

\* One bar of "for idx in range(30, len(candles))" that carries a signal.
DayLoopSignal ==
    \E in \in BacktestSignals, t \in DayLoopBarTimes :
        /\ ChecksDone
        /\ call.raised = "None"
        /\ t > candle_time
        /\ ProcessSignal([ in EXCEPT !.tod = t ])
        /\ UNCHANGED << liveVars, callVars >>

NextDayLoop ==
    \/ DayLoopCheck
    \/ DayLoopSignal

SpecDayLoop == Init /\ [][NextDayLoop]_vars

\* The launchers under concurrent requests: every caller may call start() or
\* stop() at any time, the steps of the calls and of the threads interleave.
\* The dashboard drives one of the two launchers (active_bot of app.py): a
\* behaviour follows the one that was called first.
OnlyLauncher(l) == \A other \in Launchers \ { l } : launch[other] = NotLaunched

LaunchCallerStep ==
    \E l \in Launchers, c \in Callers :
        /\ OnlyLauncher(l)
        /\ \/ StartCheck(l, c)
           \/ StartResetEvent(l, c)
           \/ StartCreateThread(l, c)
           \/ StartThread(l, c)
           \/ StopSetEvent(l, c)
           \/ StopEngine(l, c)
        /\ UNCHANGED << dayVars, gateVars, tradeVars, callVars, stopVars, wall_clock,
                        brakeVars, runnerVars, engine, ai, poll >>

LaunchThreadStep ==
    \E l \in Launchers, id \in 1..MaxThreads :
        /\ ThreadBegin(l, id) \/ ThreadObservesStop(l, id)
        /\ UNCHANGED << dayVars, gateVars, tradeVars, callVars, stopVars, wall_clock,
                        brakeVars, runnerVars, engine, ai, poll >>

NextLaunch ==
    \/ LaunchCallerStep
    \/ LaunchThreadStep

SpecLaunch == InitLive /\ [][NextLaunch]_vars

\* ---------------------------------------------------------------- claims
\* The labels that need a confirmation (every member outside IMMEDIATE_DOWNGRADE).
NeedsConfirmation == DayType \ IMMEDIATE_DOWNGRADE

\* The step is an update_day_type call.
IsUpdate == call'.op = "update_day_type"

\* C1: between two reset_for_new_day calls the severity rank of
\* current_day_type never decreases from one update_day_type call to the
\* next, whatever label and time is proposed.
C1_SeverityNeverDecreases ==
    [][IsUpdate => Level(current_day_type') >= Level(current_day_type)]_vars

\* C1 witness: an update raised the severity of an already classified day.
C1_Witness ==
    /\ call.op = "update_day_type"
    /\ call.current_before # "UNKNOWN"
    /\ Level(current_day_type) > Level(call.current_before)

\* C2 (as claimed): once current_day_type is a terminal label, no later
\* update_day_type call of the session changes it.
C2_TerminalLabelIsFinal ==
    [][(IsUpdate /\ current_day_type \in Terminal)
          => current_day_type' = current_day_type]_vars

\* C3 (as claimed): an unlocked update with a terminal label more severe than
\* the current one sets that label and locks the day in the same call.
C3_TerminalLocksAtOnce ==
    [][(IsUpdate /\ ~day_locked /\ call'.new_type \in Terminal
          /\ Level(call'.new_type) > Level(current_day_type))
          => (current_day_type' = call'.new_type /\ day_locked' /\ call'.updated)]_vars

\* C5: in an unlocked, classified session a proposal that is not more severe
\* than the current label reports not-changed, keeps the label and the lock,
\* and leaves no pending downgrade.
C5_NoUpgradeClearsPending ==
    [][(IsUpdate /\ ~day_locked /\ current_day_type # "UNKNOWN"
          /\ Level(call'.new_type) <= Level(current_day_type))
          => /\ ~call'.updated
             /\ call'.message = "None"
             /\ call'.raised = "None"
             /\ current_day_type' = current_day_type
             /\ day_locked' = day_locked
             /\ pending_downgrade' = "None"
             /\ pending_downgrade_since' = << >>]_vars

\* C5 witness: a pending NORMAL_TREND downgrade was cancelled by a proposal
\* of the current label.
C5_Witness ==
    /\ call.op = "update_day_type"
    /\ call.current_before = "CLEAN_TREND"
    /\ call.new_type = "CLEAN_TREND"
    /\ call.pending_before = "NORMAL_TREND"
    /\ pending_downgrade = "None"
    /\ current_day_type = "CLEAN_TREND"

C7_CommitOnlyInsideWindow ==
    [][(IsUpdate /\ current_day_type # "UNKNOWN"
          /\ current_day_type' # current_day_type
          /\ current_day_type' \in NeedsConfirmation)
          => /\ pending_downgrade_since # << >>
             /\ TimeSince(call'.current_time, pending_downgrade_since) >= 50
             /\ TimeSince(call'.current_time, pending_downgrade_since) <= 70]_vars

ClaimedOrder == << "gate_1", "gate_2", "gate_3", "permission" >>

IsGate(stage) == \E i \in 1..Len(ClaimedOrder) : ClaimedOrder[i] = stage

\* C9: in every evaluation the gates are called in the order exhaustion,
\* time+regime, compression, permission; no stage is called after a stage
\* that rejected; a rejection returns the rejecting gate's reason; and an
\* admitted candidate passed all four.
C9_GatesShortCircuitInOrder ==
    verdict.op = "_apply_rijin_gates" =>
        LET calls == verdict.calls
            results == verdict.results
            gates == SelectSeq(calls, IsGate)
            k == Len(calls)
        IN /\ Len(results) = k
           /\ Len(gates) <= Len(ClaimedOrder)
           /\ \A i \in 1..Len(gates) : gates[i] = ClaimedOrder[i]
           /\ \A i \in 1..(k - 1) : results[i].allowed /\ results[i].raised = "None"
           /\ (k > 0 /\ results[k].raised = "None" /\ ~results[k].allowed)
                 => /\ ~verdict.allowed
                    /\ verdict.raised = "None"
                    /\ IsGate(calls[k]) => verdict.reason = results[k].reason
           /\ verdict.allowed
                 => /\ gates = ClaimedOrder
                    /\ \A i \in 1..k : results[i].allowed

\* C9 witness: gate 1 rejected the candidate, it was the last stage called
\* and the evaluation returned its reason.
C9_Witness ==
    /\ verdict.op = "_apply_rijin_gates"
    /\ verdict.calls = << "phase_filter", "gate_1" >>
    /\ ~verdict.results[2].allowed
    /\ ~verdict.allowed
    /\ verdict.reason = << "Move exhausted (from low)" >>

\* C10 (as claimed): with an active impulse gate 1 rejects, with a reason,
\* exactly when the expansion from the impulse origin exceeds 1.5.
C10_Gate1RejectsExhaustedMove ==
    \A i \in 1..Len(verdict.calls) :
        (verdict.calls[i] = "gate_1" /\ verdict.active)
            => IF 10 * verdict.exp_num > ExhaustionAtrMultipleX10 * verdict.exp_den
               THEN ~verdict.results[i].allowed /\ verdict.results[i].reason # << >>
               ELSE verdict.results[i].allowed

\* ------------------------------------------- consecutive-loss breaker
\* The step is one signal candle of the backtest loop, evaluated at candle_time'.
IsSignalStep == candle_time' # candle_time

\* The step ran _execute_trade.
IsTradeStep == trade' # trade

\* The evaluation was rejected by the consecutive-loss pause.
RejectedByPause(v) ==
    ~v.allowed /\ v.reason = << "Consecutive Loss Protection: Paused" >>

\* C11: the pause is set only by the stop-loss close that takes the counter
\* from 1 to max_consecutive_losses (2), at that close's candle time, and every
\* such close sets it; the counter never exceeds 2 and no pause exists below
\* 2; with a pause set at p a candidate at time t is rejected by the pause
\* exactly when t < p + 60.
C11_PauseAtSecondLossForSixtyMinutes ==
    [][/\ (pause_until' # pause_until /\ pause_until' # << >>)
            => /\ IsTradeStep
               /\ trade'.exit_type = "SL"
               /\ trade'.losses_before = 1
               /\ consecutive_losses' = 2
               /\ pause_until' = << trade'.exit_time >>
       /\ (IsTradeStep /\ trade'.exit_type = "SL" /\ trade'.losses_before = 0)
            => pause_until' = << >> /\ consecutive_losses' = 1
       /\ (IsTradeStep /\ trade'.exit_type = "SL" /\ trade'.losses_before = 1)
            => pause_until' = << trade'.exit_time >>
       /\ consecutive_losses' <= 2
       /\ (consecutive_losses' < 2 => pause_until' = << >>)
       /\ (IsSignalStep /\ pause_until # << >>)
            => (RejectedByPause(verdict') <=> candle_time' < pause_until[1] + 60)
       /\ (IsSignalStep /\ pause_until = << >>) => ~RejectedByPause(verdict')]_vars

\* C11 witness: two stop-losses in a row set the pause at the second close,
\* and a candidate 55 minutes after that close is still rejected.
C11_Witness ==
    /\ trade.op = "_execute_trade"
    /\ trade.exit_type = "SL"
    /\ trade.prev_close = "SL"
    /\ trade.losses_before = 1
    /\ pause_until = << trade.exit_time >>
    /\ consecutive_losses = 2
    /\ candle_time = trade.exit_time + 55
    /\ RejectedByPause(verdict)
    /\ verdict.remaining = 5

\* C12: a target close sets consecutive_losses to 0, and a pause is set only
\* by a stop-loss close whose previous close was a stop-loss too, so closes
\* whose stop-loss runs are shorter than 2 (loss, win, loss) set no pause.
C12_WinResetsCounter ==
    [][IsTradeStep =>
        /\ trade'.exit_type = "TARGET" => consecutive_losses' = 0
        /\ (pause_until' # << >> /\ pause_until' # pause_until)
             => trade'.exit_type = "SL" /\ trade'.prev_close = "SL"
        /\ (trade'.exit_type = "SL" /\ trade'.prev_close # "SL")
             => consecutive_losses' = 1 /\ pause_until' = << >>]_vars

\* C12 witness: loss, win, loss; the counter is 1 and no pause is set.
C12_Witness ==
    /\ trade.op = "_execute_trade"
    /\ trade.exit_type = "SL"
    /\ trade.prev_close = "TARGET"
    /\ trade.losses_before = 0
    /\ consecutive_losses = 1
    /\ pause_until = << >>
    /\ sl_count_after_cutoff = 0
    /\ trade.exit_time > SessionOpen + 15

\* C13: a candidate evaluated while the pause is in force (t < p + 60) is
\* rejected with the remaining minutes 60 - (t - p), no stage is called and
\* nothing changes; a candidate evaluated once 60 minutes have elapsed is put
\* through the stages as a candidate without any pause is, and the pause is
\* cleared and the counter reset to 0 before its trade, if any.
C13_PauseRejectsThenClears ==
    [][(IsSignalStep /\ pause_until # << >>) =>
        LET t == candle_time'
            p == pause_until[1]
        IN IF t - p < 60
           THEN /\ RejectedByPause(verdict')
                /\ verdict'.remaining = 60 - (t - p)
                /\ verdict'.remaining > 0
                /\ verdict'.calls = << >>
                /\ ~IsTradeStep
                /\ UNCHANGED << pause_until, consecutive_losses >>
           ELSE /\ \E in \in BacktestSignals :
                      verdict' = RunChain(1, [ in EXCEPT !.tod = t ], << >>, << >>)
                /\ IF IsTradeStep
                   THEN /\ verdict'.allowed
                        /\ trade'.losses_before = 0
                        /\ trade'.pause_before = << >>
                   ELSE /\ ~verdict'.allowed
                        /\ pause_until' = << >>
                        /\ consecutive_losses' = 0]_vars

\* C13 witness: after two stop-losses in a row a candidate evaluated once the
\* pause had elapsed cleared it, was admitted and traded with the counter at 0.
C13_Witness ==
    /\ trade.op = "_execute_trade"
    /\ trade.prev_close = "SL"
    /\ trade.losses_before = 0
    /\ trade.pause_before = << >>
    /\ trade.exit_type = "TARGET"
    /\ verdict.allowed
    /\ candle_time = trade.entry_time
    /\ consecutive_losses = 0
    /\ pause_until = << >>
    /\ sl_count_after_cutoff = 0

\* ---------------------------------------------------- correlation brake
\* The step is a check_and_block call.
IsBrakeCheck == brake_call'.op = "check_and_block" /\ brake_call' # brake_call

\* No two stop-losses registered one after the other share their direction.
NoSameDirectionPair(h) ==
    \A i \in 1..(Len(h) - 1) : h[i].direction # h[i + 1].direction

\* C14 (as claimed): when the last two stop-losses of instrument A are at most
\* 60 minutes apart and share direction and regime, every check_and_block(A, B)
\* made less than 60 minutes after the second one reports B as blocked.
C14_TwoLossesBlockOtherInstrument ==
    [][IsBrakeCheck =>
        LET h == sl_history[brake_call'.a]
            n == Len(h)
        IN (/\ n >= 2
            /\ h[n].ts - h[n - 1].ts <= 60
            /\ h[n].direction = h[n - 1].direction
            /\ h[n].day_type = h[n - 1].day_type
            /\ brake_call'.current_time - h[n].ts < 60)
           => brake_call'.blocked]_vars

\* C15: while no two successive stop-losses of instrument A share their
\* direction, check_and_block(A, B) reports not blocked and leaves
\* blocked_instruments without an entry for B.
C15_DifferentDirectionsNeverBlock ==
    [][(IsBrakeCheck /\ NoSameDirectionPair(sl_history[brake_call'.a]))
          => /\ ~brake_call'.blocked
             /\ brake_call'.reason = "None"
             /\ blocked_instruments'[brake_call'.b] = << >>]_vars

\* C15 witness: a BUY and a SELL stop-loss of the same regime, both inside the
\* window of the check, and the check reported not blocked.
C15_Witness ==
    /\ brake_call.op = "check_and_block"
    /\ ~brake_call.blocked
    /\ LET h == sl_history[brake_call.a]
       IN /\ Len(h) = 2
          /\ h[1].direction = "BUY" /\ h[2].direction = "SELL"
          /\ h[1].day_type = h[2].day_type
          /\ h[2].ts > h[1].ts
          /\ brake_call.current_time > h[2].ts
          /\ brake_call.current_time - h[1].ts <= 60
    /\ blocked_instruments[brake_call.b] = << >>

\* --------------------------------------------------------- session stop
\* The step is a call of the SystemStopManager method `op`.
IsStopCall(op) == stop_call'.op = op /\ stop_call' # stop_call

\* C16: once stopped is true, every call other than reset_for_new_day leaves
\* it true, and check_stop_conditions returns should_stop with the recorded
\* reason; stopped only turns false in reset_for_new_day.
C16_StoppedUntilReset ==
    [][/\ (stopped /\ ~IsStopCall("reset_for_new_day"))
            => /\ stopped'
               /\ IsStopCall("check_stop_conditions")
                     => /\ stop_call'.should_stop
                        /\ stop_call'.raised = "None"
                        /\ stop_call'.reason = stop_reason
       /\ (stopped /\ ~stopped') => IsStopCall("reset_for_new_day")]_vars

\* C16 witness: a check_stop_conditions call found the session stopped, with
\* blocks and a late stop-loss registered since, and reported the stop.
C16_Witness ==
    /\ stop_call.op = "check_stop_conditions"
    /\ stop_call.stopped_before
    /\ stop_call.should_stop
    /\ stopped
    /\ consecutive_blocks > 0
    /\ sl_count_after_cutoff > 0

\* C17 (as claimed): with at least 3 consecutive blocks registered and no
\* execution since, the stop check sets stopped and reports the stop.
C17_ThreeBlocksStopSession ==
    [][(IsStopCall("check_stop_conditions")
          /\ consecutive_blocks >= ConsecutiveBlocksTrigger)
          => stopped' /\ stop_call'.should_stop]_vars

\* C18 (as claimed): register_sl counts a stop-loss exactly when its time is
\* after 11:30, and with at least 2 counted the stop check sets stopped and
\* reports the stop.
C18_TwoLateStopLossesStopSession ==
    [][/\ IsStopCall("register_sl")
            => sl_count_after_cutoff' =
                  IF stop_call'.arg[1] > SlAfterTime
                  THEN sl_count_after_cutoff + 1 ELSE sl_count_after_cutoff
       /\ (IsStopCall("check_stop_conditions")
             /\ sl_count_after_cutoff >= SlCountAfterTime)
            => stopped' /\ stop_call'.should_stop]_vars

\* C19 (as claimed): a stop check with a terminal label sets stopped and
\* records a reason; a stop check with a non-terminal label, fewer than 3
\* blocks and fewer than 2 late stop-losses leaves an unstopped session
\* unstopped.
C19_TerminalLabelStopsSession ==
    [][IsStopCall("check_stop_conditions") =>
        /\ stop_call'.arg \in Terminal => (stopped' /\ stop_reason' # "None")
        /\ (/\ ~stopped
             /\ stop_call'.arg \notin Terminal
             /\ consecutive_blocks < ConsecutiveBlocksTrigger
             /\ sl_count_after_cutoff < SlCountAfterTime)
            => ~stopped']_vars

\* A step that is an iteration of run_loop.
IsRunLoopStep == loop' # loop

\* C20: once the session stop has triggered, an iteration of the polling loop
\* in that session (one that does not begin the next day with the daily reset)
\* evaluates and admits no candidate on either instrument, registers no
\* opening impulse and creates no active trade; the stop stays set.
C20_NoEntriesAfterStop ==
    [][(stopped /\ IsRunLoopStep /\ ~NeedsDailyReset(loop'.current_time))
          => /\ loop'.evals = << >>
             /\ loop'.branch \in { "stopped", "cutoff" }
             /\ impulse_fired' = impulse_fired
             /\ total_impulse_count' = total_impulse_count
             /\ \A i \in Instruments :
                   active_trades'[i] # << >> => active_trades'[i] = active_trades[i]
             /\ stopped']_vars

\* C20 witness: an iteration inside the opening impulse window found the
\* session stopped and went on without processing any instrument.
C20_Witness ==
    /\ stopped
    /\ loop.op = "run_loop"
    /\ loop.branch = "stopped"
    /\ loop.should_stop
    /\ OpeningImpulseStart <= Tod(loop.current_time)
    /\ Tod(loop.current_time) <= OpeningImpulseEnd

\* C21: in an iteration of the polling loop that finds the session stopped or
\* the trading cutoff passed, an active trade whose last completed candle
\* reaches its stop or its target is closed and removed.
C21_OpenTradeClosedAfterStopOrCutoff ==
    [][(IsRunLoopStep /\ loop'.branch \in { "stopped", "cutoff" })
          => \A i \in Instruments :
                (active_trades[i] # << >> /\ loop'.reached[i] # "NONE")
                    => active_trades'[i] = << >>]_vars

\* A step that is a direct call of process_instrument, and one that is an
\* iteration of RijinLiveEngine.run.
IsProcessStep == loop' # loop /\ loop'.op = "process_instrument"

IsEngineStep == engine' # engine

\* The evaluations of an iteration that concern instrument i.
EvalsFor(record, i) ==
    { k \in 1..Len(record.evals) : record.evals[k].instrument = i }

IsImpulseCall ==
    impulse_call' # impulse_call /\ impulse_call'.op = "detect_impulse"

\* C24: when detect_impulse matches, the origin becomes the low of the first
\* of the two candles for a BUY impulse and its high for a SELL impulse, the
\* stored volatility the one passed in, direction and time those of the call,
\* and the call returns (True, direction, origin) with that origin.
C24_MatchSetsOriginToFirstBarBase ==
    [][(IsImpulseCall /\ impulse_call'.detected)
          => /\ impulse_call'.direction \in { "BUY", "SELL" }
             /\ impulse_origin' = << IF impulse_call'.direction = "BUY"
                                     THEN impulse_call'.first_low
                                     ELSE impulse_call'.first_high >>
             /\ impulse_atr' = << impulse_call'.atr >>
             /\ impulse_direction' = impulse_call'.direction
             /\ impulse_time' = << impulse_call'.current_time >>
             /\ impulse_call'.origin = impulse_origin'
             /\ impulse_call'.raised = "None"]_vars

\* C24 witness: a SELL impulse was detected in a call with volatility 12, and
\* the state holds the high of the first candle of that call, which differs
\* from its low.
C24_Witness ==
    /\ impulse_call.op = "detect_impulse"
    /\ impulse_call.detected
    /\ impulse_call.direction = "SELL"
    /\ impulse_origin = << impulse_call.first_high >>
    /\ impulse_call.first_high # impulse_call.first_low
    /\ impulse_call.atr = 12

\* C25: a detect_impulse call that returns not-detected, for a pattern that
\* does not match, for fewer than ten candles or for unreadable candles,
\* raises nothing and leaves origin, volatility, direction and time of the
\* stored impulse as they were.
C25_NoMatchKeepsImpulse ==
    [][(IsImpulseCall /\ ~impulse_call'.detected)
          => /\ impulse_call'.raised = "None"
             /\ impulse_call'.direction = "None"
             /\ impulse_call'.origin = << >>
             /\ UNCHANGED << impulse_origin, impulse_atr, impulse_direction,
                             impulse_time >>]_vars

\* C25 witness: with an impulse stored, a call on unreadable candles caught
\* its exception and returned not-detected, and the impulse is still stored.
C25_Witness ==
    /\ impulse_call.op = "detect_impulse"
    /\ ~impulse_call.detected
    /\ impulse_call.cause = "malformed"
    /\ impulse_call.caught
    /\ impulse_origin # << >>
    /\ impulse_time # << impulse_call.current_time >>

\* C26: with an impulse stored and a positive volatility, the expansion
\* returned for a price is |price - origin| / volatility; it grows with the
\* distance of the price from the origin and halves when the volatility is
\* doubled; without a stored impulse it is 0 for every price.
C26_ExpansionIsDistanceOverVolatility ==
    /\ impulse_call.op = "get_expansion_from_impulse"
         => IF impulse_call.origin # << >>
            THEN (impulse_call.stored_atr # << >> /\ impulse_call.stored_atr[1] > 0)
                   => /\ impulse_call.den > 0
                      /\ impulse_call.num * impulse_call.stored_atr[1]
                           = Abs(impulse_call.price - impulse_call.origin[1]) * impulse_call.den
            ELSE impulse_call.num = 0
    /\ (IsImpulseActive /\ impulse_atr # << >> /\ impulse_atr[1] > 0)
         => \A p \in ExpansionPrices, q \in ExpansionPrices :
               LET at_p == ExpansionOf(impulse_origin, impulse_atr, p)
                   at_q == ExpansionOf(impulse_origin, impulse_atr, q)
                   doubled == ExpansionOf(impulse_origin, << 2 * impulse_atr[1] >>, p)
               IN /\ Abs(p - impulse_origin[1]) <= Abs(q - impulse_origin[1])
                       => at_p.num * at_q.den <= at_q.num * at_p.den
                  /\ 2 * doubled.num * at_p.den = at_p.num * doubled.den
    /\ ~IsImpulseActive => \A p \in ExpansionPrices : ExpansionNum(p) = 0

\* C26 witness: with an impulse stored the expansion of a price below the
\* origin was asked for and came out positive.
C26_Witness ==
    /\ impulse_call.op = "get_expansion_from_impulse"
    /\ impulse_call.origin # << >>
    /\ impulse_call.price < impulse_call.origin[1]
    /\ impulse_call.num > 0

\* The three MID conditions on a candidate whose bars and indicators are all
\* there: the pullback from the recent extreme is at most half the ATR, the
\* RSI confirms the direction, and the last three bars keep the structure.
MidConditionsHold(in) ==
    /\ in.n >= 3 /\ in.missing = "None"
    /\ IF in.direction = "BUY"
       THEN /\ 10 * (in.recent_high - in.close) <= 5 * in.atr
            /\ in.rsi >= 50
            /\ in.lows3[1] <= in.lows3[2] /\ in.lows3[2] <= in.lows3[3]
       ELSE /\ 10 * (in.close - in.recent_low) <= 5 * in.atr
            /\ in.rsi <= 50
            /\ in.highs3[1] >= in.highs3[2] /\ in.highs3[2] >= in.highs3[3]

\* C27: with an active impulse the phase filter answers EARLY and admits when
\* the expansion is below 1.2, whatever the indicators and bars; answers LATE
\* and rejects with the late-phase reason when it is above 2.0, whatever the
\* indicators; and answers MID in between, admitting exactly when the three
\* MID conditions hold.
C27_PhaseFilterByExpansion ==
    (check_call.op = "is_mode_f_allowed" /\ check_call.active /\ check_call.input.n >= 1)
      => /\ check_call.raised = "None"
         /\ IF 10 * check_call.exp_num < 12 * check_call.exp_den
            THEN /\ check_call.phase = "EARLY"
                 /\ check_call.allowed
                 /\ check_call.reason = << >>
            ELSE IF 10 * check_call.exp_num > 20 * check_call.exp_den
            THEN /\ check_call.phase = "LATE"
                 /\ ~check_call.allowed
                 /\ check_call.reason = << "LATE phase" >>
            ELSE /\ check_call.phase = "MID"
                 /\ check_call.allowed <=> MidConditionsHold(check_call.input)

\* C27 witness: the phase filter admitted a candidate whose expansion is
\* exactly 1.2, as MID, and so on the strength of its MID conditions.
C27_Witness ==
    /\ check_call.op = "is_mode_f_allowed"
    /\ check_call.active
    /\ 10 * check_call.exp_num = 12 * check_call.exp_den
    /\ check_call.phase = "MID"
    /\ check_call.allowed
    /\ MidConditionsHold(check_call.input)

\* The MID conditions come to read something that is not there: the close,
\* the ATR, the RSI once the pullback has passed, or a bar of the structure
\* check once the pullback and the RSI have passed and the bars before it
\* keep the structure.
MidReadsUnavailable(in) ==
    LET pullback_ok == IF in.direction = "BUY"
                       THEN 10 * (in.recent_high - in.close) <= 5 * in.atr
                       ELSE 10 * (in.close - in.recent_low) <= 5 * in.atr
        rsi_ok == IF in.direction = "BUY" THEN in.rsi >= 50 ELSE in.rsi <= 50
        two_ok == IF in.direction = "BUY" THEN in.lows3[2] <= in.lows3[3]
                  ELSE in.highs3[2] >= in.highs3[3]
    IN \/ in.n < 1
       \/ in.missing = "atr"
       \/ in.missing = "rsi" /\ pullback_ok
       \/ /\ in.missing = "None" /\ pullback_ok /\ rsi_ok
          /\ in.n = 1 \/ (in.n = 2 /\ two_ok)

\* The check of the last direct call came to read a bar or an indicator that
\* is not there.
ReadsUnavailable ==
    LET in == check_call.input
    IN CASE check_call.op = "gate_1_move_exhaustion" -> in.n < 1 \/ in.missing = "atr"
         [] check_call.op = "gate_3_rsi_compression" -> in.n < 15
         [] check_call.op = "check_mid_phase_conditions" -> MidReadsUnavailable(in)
         [] check_call.op = "is_mode_f_allowed" ->
               /\ check_call.active
               /\ \/ in.n < 1
                  \/ /\ 12 * check_call.exp_den <= 10 * check_call.exp_num
                     /\ 10 * check_call.exp_num <= 20 * check_call.exp_den
                     /\ MidReadsUnavailable(in)
         [] OTHER -> FALSE

\* C28: a gate 1, gate 3, phase filter or MID-conditions call that comes to
\* read an unavailable indicator or bar answers allowed = true.
C28_UnavailableDataFailsOpen ==
    ReadsUnavailable => (check_call.allowed /\ check_call.raised = "None")

\* A step that is a direct call of a gate or check.
IsCheckStep == check_call' # check_call

\* C29: a call of gate 1, gate 2, gate 3, the phase filter, the MID conditions
\* or a ModePermissionChecker check leaves the impulse state, the regime state
\* (label, lock, pending downgrade), the correlation-brake state and the
\* session-stop state as they were, whether it allows, rejects or raises.
C29_ChecksAreQueryOnly ==
    [][IsCheckStep
         => /\ check_call'.op \in CheckNames
            /\ UNCHANGED << impulse_origin, impulse_atr, impulse_direction, impulse_time,
                            swing_high, swing_low >>
            /\ UNCHANGED << current_day_type, day_locked, pending_downgrade,
                            pending_downgrade_since, last_check_time >>
            /\ UNCHANGED << sl_history, blocked_instruments >>
            /\ UNCHANGED << stopped, stop_reason, consecutive_blocks,
                            sl_count_after_cutoff >>]_vars

\* C29 witness: the phase filter rejected a candidate while an impulse was
\* stored, a stop-loss was registered with the brake and the session was
\* stopped, and all three are still in place.
C29_Witness ==
    /\ check_call.op = "is_mode_f_allowed"
    /\ ~check_call.allowed
    /\ check_call.active
    /\ IsImpulseActive
    /\ Len(sl_history["NIFTY"]) > 0
    /\ stopped

\* The labels of the severity ranking that no other label ranks below.
LeastSevere ==
    { t \in DOMAIN DAY_TYPE_HIERARCHY :
        \A u \in DOMAIN DAY_TYPE_HIERARCHY : DAY_TYPE_HIERARCHY[t] <= DAY_TYPE_HIERARCHY[u] }

\* C30: a classify_day call in which no predicate matches returns the least
\* severe label of the ranking with the reason "Default classification", and
\* no call answers with the engine's current label in place of a
\* classification.
C30_DefaultIsLeastSevereNeverStale ==
    classify_call.op = "classify_day"
      => /\ ~classify_call.fallback
         /\ (/\ classify_call.n >= 30
             /\ classify_call.stats_ok
             /\ ~classify_call.expiry_post_noon
             /\ classify_call.matches = { })
              => /\ classify_call.label \in LeastSevere
                 /\ classify_call.reason = "Default classification"

\* The predicates that held in the last classify_day call, each as the label
\* it answers with; a late expiry day is the predicate of EXPIRY_DISTORTION.
MatchedLabels ==
    classify_call.matches
      \cup (IF classify_call.expiry_post_noon THEN { "EXPIRY_DISTORTION" } ELSE { })

\* C31: a classify_day call on readable bars in which predicates of ranked
\* labels hold returns one of those labels, and none of them ranks above it.
C31_MostSevereMatchWins ==
    (/\ classify_call.op = "classify_day"
     /\ classify_call.n >= 30
     /\ classify_call.stats_ok
     /\ MatchedLabels # { }
     /\ MatchedLabels \subseteq DOMAIN DAY_TYPE_HIERARCHY)
      => /\ classify_call.label \in MatchedLabels
         /\ \A m \in MatchedLabels :
               DAY_TYPE_HIERARCHY[m] <= DAY_TYPE_HIERARCHY[classify_call.label]

\* C32: a validation in which the filter returned None answers ACCEPT and
\* adds exactly one to ai_failures, and at all times
\* ai_total_calls = ai_accepts + ai_restricts + ai_failures.
C32_OutageAcceptsAndIsCounted ==
    /\ ai.ai_total_calls = ai.ai_accepts + ai.ai_restricts + ai.ai_failures
    /\ (ai.call.op = "validate_signal_with_ai" /\ ai.call.result = "None")
         => /\ ai.call.decision = "ACCEPT"
            /\ ai.ai_failures = ai.call.failures_before + 1
            /\ ai.ai_total_calls = ai.call.total_before + 1

\* C32 witness: after an accepted and a restricted signal the filter returned
\* None, and the validation was counted as the first failure.
C32_Witness ==
    /\ ai.call.op = "validate_signal_with_ai"
    /\ ai.call.result = "None"
    /\ ai.call.cause = "retries exhausted"
    /\ ai.call.decision = "ACCEPT"
    /\ ai.ai_accepts = 1 /\ ai.ai_restricts = 1 /\ ai.ai_failures = 1

\* C33: once the stop signal is set, a polling loop observes it at the top of
\* its next iteration and during every sleep or backoff wait: no second of a
\* pause goes by with the stop event set, in run_loop and in RijinLiveEngine.run.
C33_StopObservedDuringEveryWait ==
    \A l \in PollLoops : poll[l].stop_set => poll[l].ignored = 0

\* What process_instrument decides for a candidate on `instrument` from the
\* runner's state rs with the correlation brake left out (nothing registered,
\* nothing blocked): the evaluations it makes and the trade it leaves.
OutcomeWithoutBrake(rs, instrument, inp, t, day_type) ==
    LET unbraked == [ rs EXCEPT !.history = [ i \in Instruments |-> << >> ],
                                !.blocked = [ i \in Instruments |-> << >> ],
                                !.evals = << >> ]
        after == ProcessInstrument(unbraked, instrument, inp, t, day_type)
    IN [ evals |-> after.evals, trade |-> after.active[instrument] ]

\* C34: the instruments influence each other only through the correlation
\* brake: a call of process_instrument for one instrument leaves what
\* process_instrument decides, brake left out, for every candidate on the
\* other instrument as it was.
C34_InstrumentsInterfereOnlyThroughBrake ==
    [][ \A a \in Instruments :
          (loop' # loop /\ loop'.op = "process_instrument" /\ loop'.name = a)
             => \A inp \in LiveInputs :
                   OutcomeWithoutBrake(RunnerState', GetOtherInstrument(a), inp,
                                       wall_clock', runner_day_type')
                     = OutcomeWithoutBrake(RunnerState, GetOtherInstrument(a), inp,
                                           wall_clock, runner_day_type) ]_vars

\* C35: every trade the runner admits has passed all execution gates: each
\* execute_signal follows, for the same signal, an evaluation of rijin_execute
\* in which gate 2, the permission check and the correlation brake allowed it,
\* whatever the category of the signal.
C35_EveryAdmissionPassedTheGates ==
    \A k \in 1..Len(loop.evals) :
        loop.evals[k].outcome = "admitted" => loop.evals[k].passed = ExecutionChecks

\* C36: whenever a downgrade is pending, the time it was first proposed is
\* set and the pending label is strictly more severe than the current one.
C36_PendingDowngradeIsTimedAndMoreSevere ==
    pending_downgrade # "None"
       => /\ pending_downgrade_since # << >>
          /\ Level(pending_downgrade) > Level(current_day_type)

\* C37: whenever the runner evaluates a candidate, its cached
\* current_day_type is the day-type engine's current_day_type, also after a
\* daily reset and after an analysis that failed.
C37_CachedLabelIsTheEnginesLabel ==
    (loop.op = "process_instrument" /\ loop.evals # << >>)
       => runner_day_type = current_day_type

C39_ExitBarIsNotBeforeEntry ==
    [][ \A i \in Instruments :
          (/\ loop' # loop
           /\ loop'.op = "process_instrument"
           /\ loop'.name = i
           /\ active_trades[i] # << >>
           /\ active_trades'[i] # active_trades[i])
             => LastCandleTime(loop'.current_time) >= active_trades[i][1].entry_time
      ]_vars

\* C40: at most one engine loop runs at a time: whatever the interleaving of
\* concurrent start() and stop() calls, a launcher never has two live engine
\* threads.
C40_AtMostOneLiveEngineThread ==
    \A l \in Launchers : Cardinality(LiveThreads(l)) <= 1

====
